---- MODULE Spec2Model ----
(***************************************************************************)
(* A model of alices-mirror: the shared PTY session (internal/terminal)    *)
(* and the multiplexing WebSocket server (internal/server).                *)
(*                                                                         *)
(* Bytes read from the PTY are numbered 1, 2, 3, ... in read order, so a   *)
(* chunk is a sequence of consecutive byte numbers and a duplicated or     *)
(* reordered byte is visible in what a client receives.                    *)
(***************************************************************************)
EXTENDS Integers, Sequences, FiniteSets, TLC

\* ------------------------------------------------------------------ bounds
\* Ring buffer capacity N (cfg.BufferSize; 256 KiB by default).
BufferSize == 2
\* Capacity of Session.outputCh (128 in the code), scaled down.
OutputCap == 1
\* Capacity of Session.statusCh (16 in the code), scaled down.
StatusCap == 1
\* Capacity of client.send (128 in the code), scaled down.
SendCap == 2
\* Number of bytes the PTY produces in a run.
MaxBytes == 2
\* Length of the longest chunk one Read returns (4096 in the code).
MaxChunk == 1
\* Number of shells the run loop may start in a run.
MaxShells == 2
\* Number of WebSocket clients in a run of the fan-out.
MaxClients == 1
\* Number of WebSocket requests in a run of the whole server.
MaxRequests == 2
\* Number of input frames a client sends, and of uploads in a run.
MaxInputs == 2
MaxUploads == 1
\* Number of bytes in an input frame.
InputLen == 2
\* Number of reset frames in a run.
MaxResets == 1
\* Capacity of the title parser's buffer (8192 in the program).
MaxSize == 2
\* Width in bits of the title parser's int (64 in the program, 32 on a
\* 32-bit build).
IntBits == 5
\* Length of the short texts given as --user-level, and the number of items
\* of the lists.
RuleLen == 4
MaxRules == 2
\* The largest number of columns and of rows a resize frame asks for, and
\* the number of resize frames in a run.
MaxSide == 2
MaxResizes == 2
\* Number of processes in the shell's process tree.
MaxPids == 2
\* Number of runs of the mobile wrapper's Server.
MaxRuns == 3
\* Length of the file names given to sanitizeFilename.
NameLen == 4
\* The number of candidate names createUniqueFile tries, 10000 in the code,
\* and the number of calls made on one directory.
NameTries == 3
MaxCreates == 3
\* The number of parts of a multipart upload.
MaxParts == 2
\* Length of what follows the beginning of a title given to the decoder.
TitleLen == 5
\* Length of the byte sequences fed to the title parser.
FeedLen == 5
\* Number of Append calls in a run of the ring buffer alone.
MaxAppends == 3

Clients == 1..MaxClients
Requests == 1..MaxRequests
Shells == 1..MaxShells
\* Byte values for the ring buffer checked alone.
Byte == {0, 1}
\* nil for s.pty and s.cmd
NoShell == 0
\* nobody holds s.writeMu
NoRequest == 0
\* The size of a PTY that was never resized, and the sizes a resize frame
\* may ask for (0 is not a size).
DefaultSize == <<0, 0>>
Dims == {0, 1, 2}

VARIABLES
    \* terminal.Session
    closed,          \* s.closed
    pty,             \* s.pty and s.cmd: the shell whose handles are current, or NoShell
    exitOnShellExit, \* s.exitOnShellExit
    buffer,          \* s.buffer.data
    outputCh,        \* s.outputCh
    statusCh,        \* s.statusCh
    chClosed,        \* closeChannels has run: outputCh, statusCh, doneCh are closed
    rl,              \* position of runLoop
    rlShell,         \* runLoop's locals cmd, ptyHandle
    rlChunk,         \* readLoop's local chunk
    closePc,         \* position of a Session.Close call
    closeShell,      \* Close's locals cmd, ptyHandle
    \* the operating system
    nshell,          \* shells started so far
    ptyOpen,         \* ptyOpen[s]: the PTY of shell s is open
    alive,           \* alive[s]: the process of shell s runs
    nread,           \* bytes read from PTYs so far
    \* server.Server: registry and fan-out
    clients,         \* s.clients
    cpc,             \* position of each request's handler goroutine
    send,            \* c.send
    sendClosed,      \* close(c.send) has run
    snap,            \* the handler's local snapshot
    wpc,             \* position of each writePump
    written,         \* binary frames written to the socket by writePump, in order
    connOpen,        \* the connection is open
    \* server.Server: owner and shutdown
    ownerConnected,  \* s.ownerConnected
    isOwner,         \* c.isOwner
    shutdownFunc,    \* s.shutdownFunc is set (not nil)
    shutdownOnce,    \* s.shutdownOnce: "idle", "running" or "done"
    startPc,         \* position of Server.Start
    watchPc,         \* position of the goroutine waiting for session.Done
    listening,       \* the listeners accept connections
    httpShutdowns,   \* calls of srv.Shutdown so far
    ctxDone,         \* the context given to Start is cancelled
    \* access control and control plane
    userLevels,      \* the configured user-level rules
    remoteIP,        \* the remote IP of each request
    inputs,          \* blocks written to the PTY by WriteInput, with their sender
    uploads,         \* answers to POST /upload, with the caller's IP
    auth,            \* s.auth
    authz,           \* the Authorization header of each request
    challenge,       \* the answer to the request has a WWW-Authenticate header
    token,           \* the token query parameter of each /ws-owner request
    \* calls of Session.Reset, Session.Resize and Session.WriteInput
    resetPc,         \* position of a Session.Reset call
    resetShell,      \* Reset's locals cmd, ptyHandle
    resetResult,     \* what Reset returns
    resetLog,        \* the resets handled so far: result and whether a notice was broadcast
    resetKilled,     \* the shells whose process tree a Reset terminated
    lastCols,        \* s.lastCols
    lastRows,        \* s.lastRows
    winsize,         \* winsize[s]: the size of the PTY of shell s
    resized,         \* the Resize calls made: their number, the last one's arguments and result
    writeMu,         \* s.writeMu: the request whose WriteInput holds it, or NoRequest
    wShell,          \* WriteInput's local ptyHandle, per request
    wn,              \* bytes of the current frame written so far, per request
    nframes,         \* input frames read so far, per request
    werr,            \* what the last WriteInput call returned, per request
    \* a pure function applied to an input
    fnIn,            \* the input
    fnOut,           \* what the function has returned so far
    \* history
    chunks           \* every chunk appended to the ring buffer, in order

sessVars == <<closed, pty, exitOnShellExit>>
loopVars == <<rl, rlShell>>
closeVars == <<closePc, closeShell>>
dataVars == <<buffer, chunks, outputCh, rlChunk, nread>>
statVars == <<statusCh, chClosed>>
osVars == <<nshell, ptyOpen, alive>>
regVars == <<clients, cpc, send, sendClosed, snap, wpc, written, connOpen>>
ownVars == <<ownerConnected, isOwner>>
shutVars == <<shutdownFunc, shutdownOnce, startPc, watchPc, listening, httpShutdowns,
              ctxDone>>
resetVars == <<resetPc, resetShell, resetResult, resetLog, resetKilled>>
sizeVars == <<lastCols, lastRows, winsize, resized>>
lockVars == <<writeMu, wShell, wn, nframes, werr>>
apiVars == <<resetVars, sizeVars, lockVars>>
fnVars == <<fnIn, fnOut>>
\* The configuration and what only the auth middleware reads and writes.
cfgVars == <<userLevels, auth, authz, challenge, token>>
ctlVars == <<cfgVars, remoteIP, inputs, uploads, apiVars, fnVars>>
\* What no call of the session's methods touches.
restVars == <<ownVars, shutVars, cfgVars, remoteIP, uploads, fnVars>>
srvVars == <<ownVars, shutVars, ctlVars>>
vars == <<sessVars, loopVars, closeVars, dataVars, statVars, osVars, regVars, srvVars>>

\* ------------------------------------------------------------- ring buffer
Max(a, b) == IF a > b THEN a ELSE b

\* s[from+1 .. Len(s)], Go's s[from:]
DropFirst(s, from) == SubSeq(s, from + 1, Len(s))

\* The last n elements of s (all of s when it is shorter).
LastN(s, n) == DropFirst(s, Max(0, Len(s) - n))

\* The concatenation of a sequence of sequences.
RECURSIVE Flatten(_)
Flatten(ss) == IF ss = <<>> THEN <<>> ELSE Head(ss) \o Flatten(Tail(ss))

\* A plausible slip in Append: the overflow drops one byte too few.
ringAppendKeepsOneMore(data, p, max) ==
    IF Len(p) >= max
    THEN DropFirst(p, Len(p) - max)
    ELSE LET needed == Len(data) + Len(p) - max - 1
         IN  (IF needed > 0 THEN DropFirst(data, needed) ELSE data) \o p

\* ringBuffer.Append: the new value of r.data
ringAppend(data, p, max) ==
    IF Len(p) >= max
    THEN DropFirst(p, Len(p) - max)
    ELSE LET needed == Len(data) + Len(p) - max
         IN  (IF needed > 0 THEN DropFirst(data, needed) ELSE data) \o p

\* ringBuffer.Bytes: a copy of r.data
Bytes(data) == [i \in 1..Len(data) |-> data[i]]

\* Session.Snapshot
Snapshot == Bytes(buffer)

\* ---------------------------------------------------------------- messages
\* websocket.BinaryMessage, websocket.TextMessage
BinaryMessage == 2
TextMessage == 1

\* wsMessage{messageType, data}; kind records where the frame came from.
SnapshotMsg(d) == [messageType |-> BinaryMessage, kind |-> "snapshot", data |-> d]
OutputMsg(d) == [messageType |-> BinaryMessage, kind |-> "output", data |-> d]
StatusMsg(m) == [messageType |-> TextMessage, kind |-> "status", data |-> m]
ResetFailedMsg(m) == [messageType |-> TextMessage, kind |-> "reset-failed", data |-> m]

\* ------------------------------------------------------------- user levels
UserLevelInteract == 0
UserLevelWatchOnly == 1

\* http.StatusOK and the refusals the handlers answer with
StatusOK == "200"
StatusBadRequest == "400"
StatusUnauthorized == "401"
StatusForbidden == "403"
StatusConflict == "409"
StatusInternalServerError == "500"
StatusServiceUnavailable == "503"

\* UserLevelRule{Pattern, Level}
Rule(pattern, level) == [Pattern |-> pattern, Level |-> level]

\* compileUserLevelPattern and matcher.MatchString: the pattern is quoted,
\* every "*" stands for any run of characters (".*": no line feed), and the
\* match is anchored at both ends.
RECURSIVE MatchString(_, _)
MatchString(pattern, ip) ==
    IF pattern = <<>> THEN ip = <<>>
    ELSE IF Head(pattern) = "*"
    THEN \/ MatchString(Tail(pattern), ip)
         \/ (ip # <<>> /\ Head(ip) # "\n" /\ MatchString(pattern, Tail(ip)))
    ELSE /\ ip # <<>>
         /\ Head(ip) = Head(pattern)
         /\ MatchString(Tail(pattern), Tail(ip))

\* A plausible slip in MatchUserLevel: the loop goes on after a match and
\* the last rule that matches decides.
MatchUserLevelLastWins(rules, ip) ==
    LET hits == {k \in 1..Len(rules) : MatchString(rules[k].Pattern, ip)}
    IN  IF hits = {}
        THEN [level |-> UserLevelInteract, matched |-> FALSE]
        ELSE [level |-> rules[CHOOSE k \in hits : \A j \in hits : j <= k].Level,
              matched |-> TRUE]

\* MatchUserLevel: the level of the first rule that matches, and whether
\* one did.
RECURSIVE MatchUserLevel(_, _)
MatchUserLevel(rules, ip) ==
    IF rules = <<>> THEN [level |-> UserLevelInteract, matched |-> FALSE]
    ELSE IF MatchString(Head(rules).Pattern, ip)
    THEN [level |-> Head(rules).Level, matched |-> TRUE]
    ELSE MatchUserLevel(Tail(rules), ip)

\* Remote addresses, written as strings of the letters a and b; the empty
\* one is a request whose address could not be read.
IPs == {<<>>, <<"a">>, <<"a", "b">>, <<"b">>}

\* Rule lists a server may be configured with ("*-0" is the default).
RuleLists ==
    { <<Rule(<<"*">>, UserLevelInteract)>>,
      <<Rule(<<"a", "*">>, UserLevelWatchOnly)>>,
      <<Rule(<<"a", "*">>, UserLevelWatchOnly), Rule(<<"*">>, UserLevelInteract)>>,
      <<Rule(<<"*">>, UserLevelInteract), Rule(<<"a", "*">>, UserLevelWatchOnly)>> }

DefaultRules == <<Rule(<<"*">>, UserLevelInteract)>>

\* -------------------------------------------------------- OSC title parser
\* The bytes the parser tells apart: ESC, BEL, ']', ';', the backslash and
\* the digits '0'..'9', of which '2'.
ESC == 27
BEL == 7
RBracket == 93
Semicolon == 59
Backslash == 92
Digit0 == 48
Digit9 == 57
Digit2 == 50
Digit1 == 49

\* Go's int arithmetic: the result wraps to the signed IntBits-bit range.
WrapInt(x) ==
    ((x + 2 ^ (IntBits - 1)) % (2 ^ IntBits)) - 2 ^ (IntBits - 1)

\* newOSCTitleParser: the parser's state, param, capture and buf (maxSize
\* is the bound MaxSize).
newOSCTitleParser ==
    [state |-> "Text", param |-> 0, capture |-> FALSE, buf |-> <<>>]

\* The end of a title (BEL, or ESC and backslash): the title is emitted if
\* it is captured and not empty, buf is emptied, the state is Text.
EndTitle(p) ==
    [p |-> [p EXCEPT !.state = "Text", !.buf = <<>>],
     titles |-> IF p.capture /\ Len(p.buf) > 0 THEN <<p.buf>> ELSE <<>>]

\* The ';' after the parameter: capture for OSC 0 and OSC 2.
BeginTitle(p) ==
    [p EXCEPT !.state = "Title", !.buf = <<>>,
              !.capture = (p.param = 0 \/ p.param = 2)]

\* A plausible slip in the capture: the test is len(p.buf) <= p.maxSize.
CaptureAtCap(p, b) ==
    IF p.capture /\ Len(p.buf) <= MaxSize
    THEN [p EXCEPT !.buf = Append(p.buf, b)]
    ELSE p

\* append(p.buf, b) if the title is captured and buf has room.
Capture(p, b) ==
    IF p.capture /\ Len(p.buf) < MaxSize
    THEN [p EXCEPT !.buf = Append(p.buf, b)]
    ELSE p

\* Feed, the body of the loop: one byte, by state; the new parser and the
\* titles emitted (none or one).
FeedByte(p, b) ==
    CASE p.state = "Text" ->
           [p |-> [p EXCEPT !.state = IF b = ESC THEN "Esc" ELSE "Text"],
            titles |-> <<>>]
      [] p.state = "Esc" ->
           [p |-> IF b = RBracket
                  THEN [p EXCEPT !.state = "OSC", !.param = 0,
                                 !.capture = FALSE, !.buf = <<>>]
                  ELSE [p EXCEPT !.state = IF b = ESC THEN "Esc" ELSE "Text"],
            titles |-> <<>>]
      [] p.state = "OSC" ->
           [p |-> IF b >= Digit0 /\ b <= Digit9
                  THEN [p EXCEPT !.state = "Param", !.param = b - Digit0]
                  ELSE IF b = Semicolon
                  THEN BeginTitle(p)
                  ELSE [p EXCEPT !.state = "Text"],
            titles |-> <<>>]
      [] p.state = "Param" ->
           [p |-> IF b >= Digit0 /\ b <= Digit9
                  THEN [p EXCEPT !.param = WrapInt(p.param * 10 + (b - Digit0))]
                  ELSE IF b = Semicolon
                  THEN BeginTitle(p)
                  ELSE [p EXCEPT !.state = "Text"],
            titles |-> <<>>]
      [] p.state = "Title" ->
           IF b = BEL
           THEN EndTitle(p)
           ELSE [p |-> IF b = ESC
                       THEN [p EXCEPT !.state = "TitleEsc"]
                       ELSE Capture(p, b),
                 titles |-> <<>>]
      [] p.state = "TitleEsc" ->
           IF b = Backslash
           THEN EndTitle(p)
           ELSE [p |-> [Capture(Capture(p, ESC), b) EXCEPT !.state = "Title"],
                 titles |-> <<>>]

\* Feed, the loop over data: the parser after the last byte and the titles
\* emitted, in order.
RECURSIVE FeedBytes(_, _)
FeedBytes(p, data) ==
    IF data = <<>>
    THEN [p |-> p, titles |-> <<>>]
    ELSE LET first == FeedByte(p, Head(data))
             rest == FeedBytes(first.p, Tail(data))
         IN  [p |-> rest.p, titles |-> first.titles \o rest.titles]

\* A plausible slip in Feed: the state is local to the call and every call
\* starts in the Text state.
FeedFromText(p, data) ==
    IF Len(data) = 0
    THEN [p |-> p, titles |-> <<>>]
    ELSE FeedBytes(newOSCTitleParser, data)

\* oscTitleParser.Feed: nothing for no data, else the loop; the parser
\* after the call and the titles returned.
Feed(p, data) ==
    IF Len(data) = 0
    THEN [p |-> p, titles |-> <<>>]
    ELSE FeedBytes(p, data)

\* ---------------------------------------------------------------- strings
\* A string is the sequence of its characters.
\* strings.Index(s, ch): the 0-based index of the first ch in s, or -1.
Index(s, ch) ==
    IF \E i \in 1..Len(s) : s[i] = ch
    THEN (CHOOSE i \in 1..Len(s) :
              s[i] = ch /\ \A k \in 1..(i - 1) : s[k] # ch) - 1
    ELSE -1

\* strings.LastIndex(s, ch): the 0-based index of the last ch in s, or -1.
LastIndex(s, ch) ==
    IF \E i \in 1..Len(s) : s[i] = ch
    THEN (CHOOSE i \in 1..Len(s) :
              s[i] = ch /\ \A k \in (i + 1)..Len(s) : s[k] # ch) - 1
    ELSE -1

\* strings.HasPrefix(s, prefix)
HasPrefix(s, prefix) ==
    Len(s) >= Len(prefix) /\ SubSeq(s, 1, Len(prefix)) = prefix

\* unicode.IsSpace, for the white space of the inputs.
IsSpace(ch) == ch \in {" ", "\t"}

\* strings.TrimSpace(s): s without its leading and trailing white space.
RECURSIVE TrimSpace(_)
TrimSpace(s) ==
    IF s = <<>> THEN s
    ELSE IF IsSpace(Head(s)) THEN TrimSpace(Tail(s))
    ELSE IF IsSpace(s[Len(s)]) THEN TrimSpace(SubSeq(s, 1, Len(s) - 1))
    ELSE s

\* s[from:to] of Go, both 0-based.
Slice(s, from, to) == SubSeq(s, from + 1, to)

\* strings.Split(s, sep) for a separator of one character
RECURSIVE Split(_, _)
Split(s, sep) ==
    LET i == Index(s, sep)
    IN  IF i < 0
        THEN <<s>>
        ELSE <<Slice(s, 0, i)>> \o Split(Slice(s, i + 1, Len(s)), sep)

\* The decimal digits and the value of each.
Digits == {"0", "1", "2", "3", "4", "5", "6", "7", "8", "9"}

DigitValue(ch) ==
    CASE ch = "0" -> 0 [] ch = "1" -> 1 [] ch = "2" -> 2 [] ch = "3" -> 3
      [] ch = "4" -> 4 [] ch = "5" -> 5 [] ch = "6" -> 6 [] ch = "7" -> 7
      [] ch = "8" -> 8 [] ch = "9" -> 9

\* The value of a run of digits.
RECURSIVE Decimal(_)
Decimal(ds) ==
    IF ds = <<>> THEN 0
    ELSE Decimal(SubSeq(ds, 1, Len(ds) - 1)) * 10 + DigitValue(ds[Len(ds)])

\* strconv.Atoi(s): an optional sign and one or more decimal digits (the
\* texts of the inputs are too short to overflow); value and whether the
\* text was a number.
Atoi(s) ==
    LET signed == s # <<>> /\ Head(s) \in {"+", "-"}
        ds == IF signed THEN Tail(s) ELSE s
    IN  IF ds = <<>> \/ \E i \in 1..Len(ds) : ds[i] \notin Digits
        THEN [value |-> 0, ok |-> FALSE]
        ELSE [value |-> IF signed /\ Head(s) = "-"
                        THEN 0 - Decimal(ds)
                        ELSE Decimal(ds),
              ok |-> TRUE]

\* ------------------------------------------------------- upload file names
\* A file name is the sequence of its code points.
NUL == 0
SOH == 1
Tab == 9
Space == 32
Dot == 46
Slash == 47
Colon == 58
LetterA == 97

\* unicode.IsSpace on Latin-1, as strings.TrimSpace tests it.
IsSpaceRune(r) == r \in {9, 10, 11, 12, 13, 32, 133, 160}

\* strings.TrimSpace on code points
RECURSIVE TrimSpaceRunes(_)
TrimSpaceRunes(s) ==
    IF s = <<>> THEN s
    ELSE IF IsSpaceRune(Head(s)) THEN TrimSpaceRunes(Tail(s))
    ELSE IF IsSpaceRune(s[Len(s)])
         THEN TrimSpaceRunes(SubSeq(s, 1, Len(s) - 1))
    ELSE s

\* strings.ReplaceAll(s, old, new) for old of one code point
RECURSIVE ReplaceAll(_, _, _)
ReplaceAll(s, old, new) ==
    IF s = <<>> THEN <<>>
    ELSE (IF Head(s) = old THEN new ELSE <<Head(s)>>)
             \o ReplaceAll(Tail(s), old, new)

\* path.Base: "." for the empty path; trailing slashes are stripped, the
\* text after the last slash is kept; "/" when nothing is left.
RECURSIVE StripTrailingSlashes(_)
StripTrailingSlashes(p) ==
    IF p # <<>> /\ p[Len(p)] = Slash
    THEN StripTrailingSlashes(SubSeq(p, 1, Len(p) - 1))
    ELSE p

Base(p) ==
    IF p = <<>> THEN <<Dot>>
    ELSE LET q == StripTrailingSlashes(p)
             i == LastIndex(q, Slash)
             e == IF i >= 0 THEN Slice(q, i + 1, Len(q)) ELSE q
         IN  IF e = <<>> THEN <<Slash>> ELSE e

\* const invalid = "<>:\"/\\|?*"
invalid == {60, 62, 58, 34, 47, 92, 124, 63, 42}

\* The strings.Map call of sanitizeFilename: code points below 32 are
\* dropped, the invalid ones become '_'.
RECURSIVE MapInvalid(_)
MapInvalid(s) ==
    IF s = <<>> THEN <<>>
    ELSE (IF Head(s) < 32 THEN <<>>
          ELSE IF Head(s) \in invalid THEN <<95>>
          ELSE <<Head(s)>>) \o MapInvalid(Tail(s))

DotNames == {<<Dot>>, <<Dot, Dot>>}

\* A slip in sanitizeFilename: "." and ".." are tested before the mapping
\* only.
sanitizeFilenameNoLastTest(name) ==
    LET trimmed == TrimSpaceRunes(name)
        based == TrimSpaceRunes(Base(ReplaceAll(ReplaceAll(trimmed, NUL, <<>>),
                                                Backslash, <<Slash>>)))
    IN  IF trimmed = <<>> THEN <<>>
        ELSE IF based = <<>> \/ based \in DotNames THEN <<>>
        ELSE TrimSpaceRunes(MapInvalid(based))

\* sanitizeFilename(name): "" rejects the name.
sanitizeFilename(name) ==
    LET trimmed == TrimSpaceRunes(name)
        based == TrimSpaceRunes(Base(ReplaceAll(ReplaceAll(trimmed, NUL, <<>>),
                                                Backslash, <<Slash>>)))
        cleaned == TrimSpaceRunes(MapInvalid(based))
    IN  IF trimmed = <<>> THEN <<>>
        ELSE IF based = <<>> \/ based \in DotNames THEN <<>>
        ELSE IF cleaned = <<>> \/ cleaned \in DotNames THEN <<>>
        ELSE cleaned

\* filepath.Ext(filename): the suffix that begins at the last dot of the
\* last element, "" when it has none.
Ext(filename) ==
    IF \E i \in 1..Len(filename) :
           /\ filename[i] = Dot
           /\ \A k \in i..Len(filename) : filename[k] # Slash
    THEN Slice(filename, LastIndex(filename, Dot), Len(filename))
    ELSE <<>>

\* splitName(filename): the name without its extension and the extension;
\* a name that is all extension has none.
splitName(filename) ==
    LET ext == Ext(filename)
        base == SubSeq(filename, 1, Len(filename) - Len(ext))
    IN  IF base = <<>>
        THEN [base |-> filename, ext |-> <<>>]
        ELSE [base |-> base, ext |-> ext]

\* The %d of fmt.Sprintf for a counter, which is never negative.
RECURSIVE Itoa(_)
Itoa(n) ==
    IF n < 10 THEN <<Digit0 + n>>
    ELSE Itoa(n \div 10) \o <<Digit0 + (n % 10)>>

\* createUniqueFile: the candidate of a counter,
\* fmt.Sprintf("%s (%d)%s", base, counter, ext) after the first.
Candidate(filename, counter) ==
    IF counter > 0
    THEN LET sn == splitName(filename)
         IN  sn.base \o <<Space, 40>> \o Itoa(counter) \o <<41>> \o sn.ext
    ELSE filename

\* No counter: os.OpenFile fails for no other reason than os.ErrExist.
NoFailure == 0 - 1

\* The loop of createUniqueFile from a counter on, over the names that
\* exist in dir.  os.OpenFile with O_CREATE|O_EXCL creates the candidate
\* when it does not exist and fails with os.ErrExist when it does; failAt is
\* the counter at which it fails for another reason.  The name and error
\* returned and the names that exist afterwards.
RECURSIVE TryCandidates(_, _, _, _)
TryCandidates(dir, filename, counter, failAt) ==
    IF counter >= NameTries
    THEN [name |-> <<>>, err |-> "too many name collisions", dir |-> dir]
    ELSE IF counter = failAt
    THEN [name |-> <<>>, err |-> "open", dir |-> dir]
    ELSE IF Candidate(filename, counter) \notin dir
    THEN [name |-> Candidate(filename, counter), err |-> "nil",
          dir |-> dir \cup {Candidate(filename, counter)}]
    ELSE TryCandidates(dir, filename, counter + 1, failAt)

\* A slip in createUniqueFile: the file is opened without O_EXCL.
createUniqueFileNoExcl(dir, filename, failAt) ==
    IF failAt = 0
    THEN [name |-> <<>>, err |-> "open", dir |-> dir]
    ELSE [name |-> filename, err |-> "nil", dir |-> dir \cup {filename}]

\* createUniqueFile(dir, filename)
createUniqueFile(dir, filename, failAt) ==
    TryCandidates(dir, filename, 0, failAt)

\* "upload.bin"
UploadBin == <<117, 112, 108, 111, 97, 100, 46, 98, 105, 110>>

\* The loop of handleUpload over the parts that are left, dir being the
\* names in the target directory and saved the names saved so far.  A part
\* has the file name of its header and a fate: "unreadable" (NextPart
\* returns an error), "create fails" (os.OpenFile fails for another reason
\* than existence), "copy fails" (io.Copy or Close fails; the file is
\* removed) or "saved".  The status of the answer, the files it lists and
\* the directory afterwards.
RECURSIVE SaveParts(_, _, _)
SaveParts(dir, parts, saved) ==
    IF parts = <<>>
    THEN IF Len(saved) = 0
         THEN [status |-> StatusBadRequest, files |-> <<>>, dir |-> dir]
         ELSE [status |-> StatusOK, files |-> saved, dir |-> dir]
    ELSE LET part == Head(parts)
             safeName == IF sanitizeFilename(part.filename) = <<>>
                         THEN UploadBin
                         ELSE sanitizeFilename(part.filename)
             created == createUniqueFile(dir, safeName,
                            IF part.fate = "create fails" THEN 0 ELSE NoFailure)
         IN  IF part.fate = "unreadable"
             THEN [status |-> StatusBadRequest, files |-> <<>>, dir |-> dir]
             ELSE IF part.filename = <<>>
             THEN SaveParts(dir, Tail(parts), saved)
             ELSE IF created.err # "nil"
             THEN [status |-> StatusInternalServerError, files |-> <<>>,
                   dir |-> dir]
             ELSE IF part.fate = "copy fails"
             THEN [status |-> StatusInternalServerError, files |-> <<>>,
                   dir |-> created.dir \ {created.name}]
             ELSE SaveParts(created.dir, Tail(parts),
                            Append(saved, created.name))

\* handleUpload from its multipart reader on: var saved and the loop.
saveUpload(dir, parts) == SaveParts(dir, parts, <<>>)

\* --------------------------------------------------------- user-level rules
\* What ParseUserLevelRules returns with an error: no rules and the kind of
\* the error; NoError is nil.
NoError == "nil"

Failed(err) == [rules |-> <<>>, err |-> err]

\* ParseUserLevelRules, the loop over the parts: the rules made so far and
\* the parts left; it returns at the first part that is not a rule.
RECURSIVE ParseItems(_, _)
ParseItems(parts, rules) ==
    IF parts = <<>>
    THEN [rules |-> rules, err |-> NoError]
    ELSE LET item == TrimSpace(Head(parts))
             sep == LastIndex(item, "-")
             pattern == TrimSpace(Slice(item, 0, sep))
             levelText == TrimSpace(Slice(item, sep + 1, Len(item)))
             levelValue == Atoi(levelText)
         IN  IF item = <<>> THEN Failed("invalid rule list")
             ELSE IF sep <= 0 \/ sep >= Len(item) - 1 THEN Failed("invalid rule")
             ELSE IF pattern = <<>> \/ levelText = <<>> THEN Failed("invalid rule")
             ELSE IF ~levelValue.ok THEN Failed("invalid level")
             ELSE IF levelValue.value # 0 /\ levelValue.value # 1
             THEN Failed("invalid level")
             ELSE ParseItems(Tail(parts),
                             Append(rules, Rule(pattern, levelValue.value)))

\* A plausible slip in ParseUserLevelRules: empty items are skipped.
ParseUserLevelRulesSkipsEmpty(raw) ==
    LET trimmed == TrimSpace(raw)
        NotEmpty(part) == TrimSpace(part) # <<>>
        r == ParseItems(SelectSeq(Split(trimmed, ","), NotEmpty), <<>>)
    IN  IF trimmed = <<>> THEN Failed("rules cannot be empty")
        ELSE IF r.err # NoError THEN Failed(r.err)
        ELSE IF Len(r.rules) = 0 THEN Failed("rules cannot be empty")
        ELSE r

\* ParseUserLevelRules(raw): the rules and the error (a quoted pattern
\* always compiles).
ParseUserLevelRules(raw) ==
    LET trimmed == TrimSpace(raw)
        r == ParseItems(Split(trimmed, ","), <<>>)
    IN  IF trimmed = <<>> THEN Failed("rules cannot be empty")
        ELSE IF r.err # NoError THEN Failed(r.err)
        ELSE IF Len(r.rules) = 0 THEN Failed("rules cannot be empty")
        ELSE r

\* ------------------------------------------------------------ title decoder
\* The literal "alices-mirror".
AlicesMirror ==
    <<"a", "l", "i", "c", "e", "s", "-", "m", "i", "r", "r", "o", "r">>

\* What parseAlicesMirrorTitle returns when the title is not decoded.
NoTitle == [cwd |-> <<>>, proc |-> <<>>, ok |-> FALSE]

\* A plausible slip in parseAlicesMirrorTitle: a title is refused when one
\* of cwd and proc is empty.
parseAlicesMirrorTitleNeedsBoth(title) ==
    LET first == Index(title, "|")
        prefix == Slice(title, 0, first)
        rest == Slice(title, first + 1, Len(title))
        second == Index(rest, "|")
        cwd == TrimSpace(Slice(rest, 0, second))
        proc == TrimSpace(Slice(rest, second + 1, Len(rest)))
    IN  IF first <= 0 THEN NoTitle
        ELSE IF ~HasPrefix(prefix, AlicesMirror) THEN NoTitle
        ELSE IF second < 0 THEN NoTitle
        ELSE IF cwd = <<>> \/ proc = <<>> THEN NoTitle
        ELSE [cwd |-> cwd, proc |-> proc, ok |-> TRUE]

\* parseAlicesMirrorTitle(title): cwd, proc and ok.
parseAlicesMirrorTitle(title) ==
    LET first == Index(title, "|")
        prefix == Slice(title, 0, first)
        rest == Slice(title, first + 1, Len(title))
        second == Index(rest, "|")
        cwd == TrimSpace(Slice(rest, 0, second))
        proc == TrimSpace(Slice(rest, second + 1, Len(rest)))
    IN  IF first <= 0 THEN NoTitle
        ELSE IF ~HasPrefix(prefix, AlicesMirror) THEN NoTitle
        ELSE IF second < 0 THEN NoTitle
        ELSE IF cwd = <<>> /\ proc = <<>> THEN NoTitle
        ELSE [cwd |-> cwd, proc |-> proc, ok |-> TRUE]

\* ------------------------------------------------------------------- Init
\* The fields of a new Session: the run loop is about to check the closed
\* flag, nothing has been read.
Session(exit) ==
    /\ closed = FALSE
    /\ pty = NoShell
    /\ exitOnShellExit = exit
    /\ buffer = <<>>
    /\ chunks = <<>>
    /\ outputCh = <<>>
    /\ statusCh = <<>>
    /\ chClosed = FALSE
    /\ rl = "top"
    /\ rlShell = NoShell
    /\ rlChunk = <<>>
    /\ closePc = "idle"
    /\ closeShell = NoShell
    /\ nshell = 0
    /\ ptyOpen = [s \in Shells |-> FALSE]
    /\ alive = [s \in Shells |-> FALSE]
    /\ nread = 0
    /\ resetPc = "idle"
    /\ resetShell = NoShell
    /\ resetResult = "none"
    /\ resetLog = <<>>
    /\ resetKilled = {}
    /\ lastCols = 0
    /\ lastRows = 0
    /\ winsize = [s \in Shells |-> DefaultSize]
    /\ resized = [n |-> 0, cols |-> 0, rows |-> 0, err |-> "none"]
    /\ writeMu = NoRequest
    /\ wShell = [c \in Requests |-> NoShell]
    /\ wn = [c \in Requests |-> 0]
    /\ nframes = [c \in Requests |-> 0]
    /\ werr = [c \in Requests |-> "none"]

\* No function is applied by itself.
NoCalls == fnIn = <<>> /\ fnOut = <<>>

\* The state after NewSession.
NewSession(exit) == Session(exit) /\ NoCalls

\* No request was made yet.
NoRequests ==
    /\ clients = {}
    /\ cpc = [c \in Requests |-> "none"]
    /\ send = [c \in Requests |-> <<>>]
    /\ sendClosed = [c \in Requests |-> FALSE]
    /\ snap = [c \in Requests |-> <<>>]
    /\ wpc = [c \in Requests |-> "none"]
    /\ written = [c \in Requests |-> <<>>]
    /\ connOpen = [c \in Requests |-> FALSE]
    /\ ownerConnected = FALSE
    /\ isOwner = [c \in Requests |-> FALSE]
    /\ remoteIP = [c \in Requests |-> <<>>]
    /\ inputs = <<>>
    /\ uploads = <<>>
    /\ challenge = [c \in Requests |-> FALSE]
    /\ token = [c \in Requests |-> <<>>]

\* A request without an Authorization header.
NoHeader == [scheme |-> "none", decodes |-> FALSE, text |-> <<>>]

\* Basic auth is not configured, and the requests carry no credentials.
NoAuth ==
    /\ auth = [Enabled |-> FALSE, User |-> <<>>, Password |-> <<>>]
    /\ authz = [c \in Requests |-> NoHeader]

\* The state after server.New: Start was not called.
New(rules) ==
    /\ NoRequests
    /\ NoAuth
    /\ userLevels = rules
    /\ shutdownFunc = FALSE
    /\ shutdownOnce = "idle"
    /\ startPc = "new"
    /\ watchPc = "none"
    /\ listening = FALSE
    /\ httpShutdowns = <<>>
    /\ ctxDone = FALSE

\* A server whose Start has set everything up and waits for its listeners
\* to end, nobody having connected yet.
Listening(rules) ==
    /\ NoRequests
    /\ userLevels = rules
    /\ shutdownFunc = TRUE
    /\ shutdownOnce = "idle"
    /\ startPc = "waiting"
    /\ watchPc = "wait"
    /\ listening = TRUE
    /\ httpShutdowns = <<>>
    /\ ctxDone = FALSE

Serving(rules) == Listening(rules) /\ NoAuth

InitWith(exit, rules) == NewSession(exit) /\ New(rules)

\* The default configuration: no owner token, the shell is respawned.
Init == InitWith(FALSE, DefaultRules)

\* ------------------------------------------------- the ring buffer alone
\* One Append call with an arbitrary chunk, shorter than, as long as or
\* longer than the capacity.
AppendCall ==
    /\ Len(chunks) < MaxAppends
    /\ \E n \in 0..(BufferSize + 1) :
         \E p \in [1..n -> Byte] :
            /\ buffer' = ringAppend(buffer, p, BufferSize)
            /\ chunks' = chunks \o <<p>>
    /\ UNCHANGED <<sessVars, loopVars, closeVars, outputCh, rlChunk, nread,
                   statVars, osVars, regVars,
                   srvVars>>

RingNext == AppendCall

RingSpec == Init /\ [][RingNext]_vars

\* ---------------------------------------------------------------- Session
\* Session.closeChannels: closeOnce closes outputCh, statusCh and doneCh.
closeChannels == chClosed' = TRUE

\* Session.emitStatus: nothing when closed, else a non-blocking send.
emitStatus(message) ==
    statusCh' = IF closed \/ Len(statusCh) >= StatusCap
                THEN statusCh
                ELSE statusCh \o <<message>>

\* emitOutput keeping the newest chunk: a full channel loses its oldest one.
emitOutputDropsOldest(data) ==
    outputCh' = IF closed
                THEN outputCh
                ELSE IF Len(outputCh) >= OutputCap
                     THEN Tail(outputCh) \o <<data>>
                     ELSE outputCh \o <<data>>

\* Session.emitOutput: nothing when closed, else a non-blocking send.
emitOutput(data) ==
    outputCh' = IF closed \/ Len(outputCh) >= OutputCap
                THEN outputCh
                ELSE outputCh \o <<data>>

\* runLoop, top of the loop: isClosed, then closeChannels and return.
RLTop ==
    /\ rl = "top"
    /\ IF closed
       THEN closeChannels /\ rl' = "done"
       ELSE rl' = "start" /\ UNCHANGED chClosed
    /\ UNCHANGED <<sessVars, rlShell, closeVars, dataVars, statusCh, osVars,
                   regVars,
                   srvVars>>

\* runLoop: startShell succeeds, a PTY and a process exist; the PTY is
\* given the last size recorded, if any.
RLStartShell ==
    /\ rl = "start"
    /\ nshell < MaxShells
    /\ nshell' = nshell + 1
    /\ ptyOpen' = [ptyOpen EXCEPT ![nshell + 1] = TRUE]
    /\ alive' = [alive EXCEPT ![nshell + 1] = TRUE]
    /\ rlShell' = nshell + 1
    /\ winsize' = [winsize EXCEPT ![nshell + 1] =
                      IF lastCols > 0 /\ lastRows > 0
                      THEN <<lastCols, lastRows>>
                      ELSE DefaultSize]
    /\ rl' = "setPTY"
    /\ UNCHANGED <<sessVars, closeVars, dataVars, statVars, regVars,
                   ownVars, shutVars, cfgVars, remoteIP, inputs, uploads,
                   resetVars, lastCols, lastRows, resized, lockVars, fnVars>>

\* runLoop: startShell fails (it can at every attempt), the status is
\* emitted.
RLStartFailed ==
    /\ rl = "start"
    /\ emitStatus("Shell start failed")
    /\ rl' = "sleep"
    /\ UNCHANGED <<sessVars, rlShell, closeVars, dataVars, chClosed,
                   nshell, ptyOpen, alive, regVars,
                   srvVars>>

\* runLoop: the 2 s sleep ends, continue.
RLSleep ==
    /\ rl = "sleep"
    /\ rl' = "top"
    /\ UNCHANGED <<sessVars, rlShell, closeVars, dataVars, statVars, osVars,
                   regVars,
                   srvVars>>

\* Session.setPTY, called by runLoop
setPTY ==
    /\ rl = "setPTY"
    /\ pty' = rlShell
    /\ rl' = "started"
    /\ UNCHANGED <<closed, exitOnShellExit, rlShell, closeVars, dataVars,
                   statVars, osVars, regVars,
                   srvVars>>

\* runLoop: emitStatus("Shell started."), start the waiter, enter readLoop.
RLStarted ==
    /\ rl = "started"
    /\ emitStatus("Shell started.")
    /\ rl' = "read"
    /\ UNCHANGED <<sessVars, rlShell, closeVars, dataVars, chClosed, osVars,
                   regVars,
                   srvVars>>

\* readLoop: Read returns n > 0 bytes, copied into chunk (the title parser
\* is fed), then s.buffer.Append(chunk).
RLRead(n) ==
    /\ rl = "read"
    /\ ptyOpen[rlShell]
    /\ nread + n <= MaxBytes
    /\ LET chunk == [i \in 1..n |-> nread + i]
       IN  /\ rlChunk' = chunk
           /\ buffer' = ringAppend(buffer, chunk, BufferSize)
           /\ chunks' = chunks \o <<chunk>>
    /\ nread' = nread + n
    /\ rl' = "emit"
    /\ UNCHANGED <<sessVars, rlShell, closeVars, outputCh, statVars, osVars,
                   regVars,
                   srvVars>>

\* readLoop: s.emitOutput(chunk)
RLEmit ==
    /\ rl = "emit"
    /\ emitOutput(rlChunk)
    /\ rlChunk' = <<>>
    /\ rl' = "read"
    /\ UNCHANGED <<sessVars, rlShell, closeVars, buffer, chunks, nread,
                   statVars, osVars, regVars,
                   srvVars>>

\* readLoop: Read returns an error (the PTY was closed, or the shell is
\* gone); readLoop returns.
RLReadError ==
    /\ rl = "read"
    /\ ~ptyOpen[rlShell] \/ ~alive[rlShell]
    /\ rl' = "closePty"
    /\ UNCHANGED <<sessVars, rlShell, closeVars, dataVars, statVars, osVars,
                   regVars,
                   srvVars>>

\* runLoop: ptyHandle.Close()
RLClosePty ==
    /\ rl = "closePty"
    /\ ptyOpen' = [ptyOpen EXCEPT ![rlShell] = FALSE]
    /\ rl' = "wait"
    /\ UNCHANGED <<sessVars, rlShell, closeVars, dataVars, statVars,
                   nshell, alive, regVars,
                   srvVars>>

\* A plausible slip in runLoop: it does not wait for cmd.Wait to return.
RLWaitSkipsDone ==
    /\ rl = "wait"
    /\ rl' = "clear"
    /\ UNCHANGED <<sessVars, rlShell, closeVars, dataVars, statVars, osVars,
                   regVars,
                   srvVars>>

\* runLoop: <-done, cmd.Wait has returned.
RLWait ==
    /\ rl = "wait"
    /\ ~alive[rlShell]
    /\ rl' = "clear"
    /\ UNCHANGED <<sessVars, rlShell, closeVars, dataVars, statVars, osVars,
                   regVars,
                   srvVars>>

\* Session.clearPTY, called by runLoop
clearPTY ==
    /\ rl = "clear"
    /\ pty' = NoShell
    /\ rlShell' = NoShell
    /\ rl' = "exited"
    /\ UNCHANGED <<closed, exitOnShellExit, closeVars, dataVars, statVars,
                   osVars, regVars,
                   srvVars>>

\* A plausible slip in runLoop: the exitOnShellExit test is left out.
RLExitedIgnoresExitFlag ==
    /\ rl = "exited"
    /\ IF closed
       THEN /\ closeChannels
            /\ rl' = "done"
            /\ UNCHANGED statusCh
       ELSE /\ emitStatus("Shell exited. Respawning now.")
            /\ rl' = "top"
            /\ UNCHANGED chClosed
    /\ UNCHANGED <<sessVars, rlShell, closeVars, dataVars, osVars, regVars,
                   srvVars>>

\* runLoop after a shell exit: closed -> finalize; exitOnShellExit ->
\* "Shell exited." and go on to finalize; else "Shell exited. Respawning now."
RLExited ==
    /\ rl = "exited"
    /\ IF closed
       THEN /\ closeChannels
            /\ rl' = "done"
            /\ UNCHANGED statusCh
       ELSE IF exitOnShellExit
       THEN /\ emitStatus("Shell exited.")
            /\ rl' = "finalize"
            /\ UNCHANGED chClosed
       ELSE /\ emitStatus("Shell exited. Respawning now.")
            /\ rl' = "top"
            /\ UNCHANGED chClosed
    /\ UNCHANGED <<sessVars, rlShell, closeVars, dataVars, osVars, regVars,
                   srvVars>>

\* A plausible slip in runLoop: the channels are closed without marking the
\* session closed.
RLFinalizeLeavesOpenFlag ==
    /\ rl = "finalize"
    /\ closeChannels
    /\ rl' = "done"
    /\ UNCHANGED <<sessVars, rlShell, closeVars, dataVars, statusCh,
                   osVars, regVars,
                   srvVars>>

\* runLoop, exitOnShellExit: s.closed = true, closeChannels, return.
RLFinalize ==
    /\ rl = "finalize"
    /\ closed' = TRUE
    /\ closeChannels
    /\ rl' = "done"
    /\ UNCHANGED <<pty, exitOnShellExit, rlShell, closeVars, dataVars, statusCh,
                   osVars, regVars,
                   srvVars>>

\* The shell process ends by itself.
ShellExit(s) ==
    /\ alive[s]
    /\ alive' = [alive EXCEPT ![s] = FALSE]
    /\ UNCHANGED <<sessVars, loopVars, closeVars, dataVars, statVars,
                   nshell, ptyOpen, regVars,
                   srvVars>>

\* Session.Close, under s.mu: set closed, take cmd and pty.
CloseCall ==
    /\ closePc = "idle"
    /\ ~closed
    /\ closed' = TRUE
    /\ closeShell' = pty
    /\ closePc' = "closePty"
    /\ UNCHANGED <<pty, exitOnShellExit, loopVars, dataVars, statVars, osVars,
                   regVars,
                   srvVars>>

\* Session.Close: ptyHandle.Close() when a PTY was current.
ClosePty ==
    /\ closePc = "closePty"
    /\ ptyOpen' = IF closeShell # NoShell
                  THEN [ptyOpen EXCEPT ![closeShell] = FALSE]
                  ELSE ptyOpen
    /\ closePc' = "kill"
    /\ UNCHANGED <<sessVars, loopVars, closeShell, dataVars, statVars,
                   nshell, alive, regVars,
                   srvVars>>

\* Session.Close: cmd.Kill() when a command was current; Close returns.
CloseKill ==
    /\ closePc = "kill"
    /\ alive' = IF closeShell # NoShell
                THEN [alive EXCEPT ![closeShell] = FALSE]
                ELSE alive
    /\ closePc' = "idle"
    /\ UNCHANGED <<sessVars, loopVars, closeShell, dataVars, statVars,
                   nshell, ptyOpen, regVars,
                   srvVars>>

\* ----------------------------------------------------- registry and fan-out
\* A plausible slip in broadcast: a blocking send, so that nobody is served
\* while the queue of one registered client is full.
broadcastStallsOnFull(msg) ==
    [c \in Requests |->
        IF c \in clients /\ \A d \in clients : Len(send[d]) < SendCap
        THEN send[c] \o <<msg>>
        ELSE send[c]]

\* Server.broadcast: under clientsMu, a non-blocking send to every
\* registered client; the new value of every c.send.
broadcast(msg) ==
    [c \in Requests |->
        IF c \in clients /\ Len(send[c]) < SendCap
        THEN send[c] \o <<msg>>
        ELSE send[c]]

\* broadcastOutput: receive the next chunk from s.session.Output() and
\* broadcast it as a binary frame.  The receive and the broadcast are one
\* step: whatever another goroutine does between them can be moved before
\* the receive (registry, queue and ring buffer operations) or after the
\* broadcast (emitOutput) with the same result.
broadcastOutput ==
    /\ outputCh # <<>>
    /\ send' = broadcast(OutputMsg(Head(outputCh)))
    /\ outputCh' = Tail(outputCh)
    /\ UNCHANGED <<sessVars, loopVars, closeVars, buffer, chunks, rlChunk, nread,
                   statVars, osVars, clients, cpc, sendClosed, snap, wpc, written,
                   connOpen,
                   srvVars>>

\* broadcastStatus: receive the next message from s.session.Status() and
\* broadcast it as a JSON text frame (one step, as for broadcastOutput).
broadcastStatus ==
    /\ statusCh # <<>>
    /\ send' = broadcast(StatusMsg(Head(statusCh)))
    /\ statusCh' = Tail(statusCh)
    /\ UNCHANGED <<sessVars, loopVars, closeVars, dataVars, chClosed, osVars,
                   clients, cpc, sendClosed, snap, wpc, written, connOpen,
                   srvVars>>

\* Server.addClient: the new value of s.clients
addClient(c) == clients \cup {c}

\* r.BasicAuth(): the user and password of an Authorization header with
\* the scheme Basic whose credentials decode from base64 and have a colon,
\* cut at the first one.
BasicAuth(h) ==
    LET i == Index(h.text, ":")
    IN  IF h.scheme # "Basic" \/ ~h.decodes \/ i < 0
        THEN [user |-> <<>>, pass |-> <<>>, ok |-> FALSE]
        ELSE [user |-> Slice(h.text, 0, i),
              pass |-> Slice(h.text, i + 1, Len(h.text)),
              ok |-> TRUE]

\* A slip in authMiddleware: the password is not compared.
authMiddlewareUserOnly(c) ==
    \/ ~auth.Enabled
    \/ BasicAuth(authz[c]).ok /\ BasicAuth(authz[c]).user = auth.User

\* authMiddleware: the request of c is passed on to the handler it wraps.
authMiddleware(c) ==
    \/ ~auth.Enabled
    \/ LET ba == BasicAuth(authz[c])
       IN  ba.ok /\ ba.user = auth.User /\ ba.pass = auth.Password

\* A request reaches the mux while the listeners accept connections;
\* requests are numbered in arrival order.
Received(c, ip) ==
    /\ listening
    /\ cpc[c] = "none"
    /\ \A d \in Requests : d < c => cpc[d] # "none"
    /\ remoteIP' = [remoteIP EXCEPT ![c] = ip]

\* authMiddleware: 401 with a WWW-Authenticate header for a request on any
\* route without the configured credentials.
Unauthorized(c, ip) ==
    /\ Received(c, ip)
    /\ ~authMiddleware(c)
    /\ cpc' = [cpc EXCEPT ![c] = StatusUnauthorized]
    /\ challenge' = [challenge EXCEPT ![c] = TRUE]
    /\ UNCHANGED <<sessVars, loopVars, closeVars, dataVars, statVars, osVars,
                   clients, send, sendClosed, snap, wpc, written, connOpen,
                   ownVars, shutVars, userLevels, auth, authz, token, apiVars,
                   fnVars, inputs, uploads>>

\* A request reaches a handler, through authMiddleware, while the listeners
\* accept connections.
Arrives(c, ip) ==
    /\ authMiddleware(c)
    /\ listening
    /\ cpc[c] = "none"
    /\ \A d \in Requests : d < c => cpc[d] # "none"
    /\ remoteIP' = [remoteIP EXCEPT ![c] = ip]

\* handleWSWithOwnerFlag: the upgrade succeeds, the client object is made
\* and registered.
Upgraded(c) ==
    /\ connOpen' = [connOpen EXCEPT ![c] = TRUE]
    /\ clients' = addClient(c)
    /\ cpc' = [cpc EXCEPT ![c] = "snapshot"]

\* staticHandler: the page or an asset is served.
ServeStatic(c, ip) ==
    /\ Arrives(c, ip)
    /\ cpc' = [cpc EXCEPT ![c] = StatusOK]
    /\ UNCHANGED <<sessVars, loopVars, closeVars, dataVars, statVars, osVars,
                   clients, send, sendClosed, snap, wpc, written, connOpen,
                   ownVars, shutVars, cfgVars, apiVars, fnVars, inputs, uploads>>

\* handleWS -> handleWSWithOwnerFlag(w, r, false), the upgrade succeeds.
HandleWS(c, ip) ==
    /\ Arrives(c, ip)
    /\ Upgraded(c)
    /\ UNCHANGED <<sessVars, loopVars, closeVars, dataVars, statVars, osVars,
                   send, sendClosed, snap, wpc, written,
                   ownVars, shutVars, cfgVars, apiVars, fnVars, inputs, uploads>>

\* handleWS -> handleWSWithOwnerFlag(w, r, false), the upgrade fails.
HandleWSFails(c, ip) ==
    /\ Arrives(c, ip)
    /\ cpc' = [cpc EXCEPT ![c] = "failed"]
    /\ UNCHANGED <<sessVars, loopVars, closeVars, dataVars, statVars, osVars,
                   clients, send, sendClosed, snap, wpc, written, connOpen,
                   ownVars, shutVars, cfgVars, apiVars, fnVars, inputs, uploads>>

\* s.ownerToken, which server.New has trimmed; it is not empty when the
\* /ws-owner route exists.
ownerToken == <<"t", "k">>

\* A plausible slip in handleWSOwner: the ownerConnected test is left out.
HandleWSOwnerAdmitsAll(c, ip, query) ==
    /\ Arrives(c, ip)
    /\ exitOnShellExit
    /\ token' = [token EXCEPT ![c] = query]
    /\ LET tok == TrimSpace(query)
       IN  IF tok = <<>> \/ tok # ownerToken
           THEN /\ cpc' = [cpc EXCEPT ![c] = StatusUnauthorized]
                /\ UNCHANGED ownVars
           ELSE /\ ownerConnected' = TRUE
                /\ isOwner' = [isOwner EXCEPT ![c] = TRUE]
                /\ cpc' = [cpc EXCEPT ![c] = "upgrade"]
    /\ UNCHANGED <<sessVars, loopVars, closeVars, dataVars, statVars, osVars,
                   clients, send, sendClosed, snap, wpc, written, connOpen,
                   shutVars, userLevels, auth, authz, challenge, apiVars,
                   fnVars, inputs, uploads>>

\* handleWSOwner, up to the call of handleWSWithOwnerFlag(w, r, true), for
\* a request whose token parameter is query: 401 when the parameter,
\* trimmed, is empty or is not the owner token; under ownerMu, 409 when
\* ownerConnected is set, else it is set.  The route exists when an owner
\* token is configured, which is when app.Run sets ExitOnShellExit.
HandleWSOwner(c, ip, query) ==
    /\ Arrives(c, ip)
    /\ exitOnShellExit
    /\ token' = [token EXCEPT ![c] = query]
    /\ LET tok == TrimSpace(query)
       IN  IF tok = <<>> \/ tok # ownerToken
           THEN /\ cpc' = [cpc EXCEPT ![c] = StatusUnauthorized]
                /\ UNCHANGED ownVars
           ELSE IF ownerConnected
           THEN /\ cpc' = [cpc EXCEPT ![c] = StatusConflict]
                /\ UNCHANGED ownVars
           ELSE /\ ownerConnected' = TRUE
                /\ isOwner' = [isOwner EXCEPT ![c] = TRUE]
                /\ cpc' = [cpc EXCEPT ![c] = "upgrade"]
    /\ UNCHANGED <<sessVars, loopVars, closeVars, dataVars, statVars, osVars,
                   clients, send, sendClosed, snap, wpc, written, connOpen,
                   shutVars, userLevels, auth, authz, challenge, apiVars,
                   fnVars, inputs, uploads>>

\* handleWSWithOwnerFlag(w, r, true), the upgrade succeeds.
OwnerUpgrade(c) ==
    /\ cpc[c] = "upgrade"
    /\ Upgraded(c)
    /\ UNCHANGED <<sessVars, loopVars, closeVars, dataVars, statVars, osVars,
                   send, sendClosed, snap, wpc, written,
                   srvVars>>

\* A plausible slip in handleWSWithOwnerFlag: a failed upgrade leaves
\* ownerConnected set.
OwnerUpgradeFailsKeepsFlag(c) ==
    /\ cpc[c] = "upgrade"
    /\ cpc' = [cpc EXCEPT ![c] = "failed"]
    /\ UNCHANGED <<sessVars, loopVars, closeVars, dataVars, statVars, osVars,
                   clients, send, sendClosed, snap, wpc, written, connOpen,
                   ownVars, shutVars, ctlVars>>

\* handleWSWithOwnerFlag(w, r, true), the upgrade fails: ownerConnected is
\* cleared under ownerMu.
OwnerUpgradeFails(c) ==
    /\ cpc[c] = "upgrade"
    /\ ownerConnected' = FALSE
    /\ cpc' = [cpc EXCEPT ![c] = "failed"]
    /\ UNCHANGED <<sessVars, loopVars, closeVars, dataVars, statVars, osVars,
                   clients, send, sendClosed, snap, wpc, written, connOpen,
                   isOwner, shutVars, ctlVars>>

\* handleWSWithOwnerFlag: snapshot := s.session.Snapshot()
TakeSnapshot(c) ==
    /\ cpc[c] = "snapshot"
    /\ snap' = [snap EXCEPT ![c] = Snapshot]
    /\ cpc' = [cpc EXCEPT ![c] = "sendSnapshot"]
    /\ UNCHANGED <<sessVars, loopVars, closeVars, dataVars, statVars, osVars,
                   clients, send, sendClosed, wpc, written, connOpen,
                   srvVars>>

\* handleWSWithOwnerFlag: a blocking send of the non-empty snapshot on
\* c.send, then go c.writePump and enter readPump.
SendSnapshot(c) ==
    /\ cpc[c] = "sendSnapshot"
    /\ IF Len(snap[c]) > 0
       THEN /\ Len(send[c]) < SendCap
            /\ send' = [send EXCEPT ![c] = @ \o <<SnapshotMsg(snap[c])>>]
       ELSE UNCHANGED send
    /\ snap' = [snap EXCEPT ![c] = <<>>]
    /\ wpc' = [wpc EXCEPT ![c] = "run"]
    /\ cpc' = [cpc EXCEPT ![c] = "read"]
    /\ UNCHANGED <<sessVars, loopVars, closeVars, dataVars, statVars, osVars,
                   clients, sendClosed, written, connOpen,
                   srvVars>>

\* A plausible slip in writePump: the frame is written and left in the queue.
WriteFrameAgain(c) ==
    /\ wpc[c] = "run"
    /\ send[c] # <<>>
    /\ connOpen[c]
    /\ Len(written[c]) <= MaxBytes
    /\ written' = IF Head(send[c]).messageType = BinaryMessage
                  THEN [written EXCEPT ![c] = @ \o <<Head(send[c])>>]
                  ELSE written
    /\ UNCHANGED <<sessVars, loopVars, closeVars, dataVars, statVars, osVars,
                   clients, cpc, send, sendClosed, snap, wpc, connOpen,
                   srvVars>>

\* writePump: take the next frame of c.send and write it to the socket
\* (text frames are written too; the history keeps the binary ones).
WriteFrame(c) ==
    /\ wpc[c] = "run"
    /\ send[c] # <<>>
    /\ connOpen[c]
    /\ written' = IF Head(send[c]).messageType = BinaryMessage
                  THEN [written EXCEPT ![c] = @ \o <<Head(send[c])>>]
                  ELSE written
    /\ send' = [send EXCEPT ![c] = Tail(@)]
    /\ UNCHANGED <<sessVars, loopVars, closeVars, dataVars, statVars, osVars,
                   clients, cpc, sendClosed, snap, wpc, connOpen,
                   srvVars>>

\* writePump: WriteMessage fails (the frame is lost), or c.send is closed
\* and drained; the deferred c.conn.Close() runs.
WriteEnd(c) ==
    /\ wpc[c] = "run"
    /\ \/ /\ send[c] # <<>>
          /\ send' = [send EXCEPT ![c] = Tail(@)]
       \/ /\ send[c] = <<>>
          /\ sendClosed[c]
          /\ UNCHANGED send
    /\ wpc' = [wpc EXCEPT ![c] = "done"]
    /\ connOpen' = [connOpen EXCEPT ![c] = FALSE]
    /\ UNCHANGED <<sessVars, loopVars, closeVars, dataVars, statVars, osVars,
                   clients, cpc, sendClosed, snap, written,
                   srvVars>>

\* Server.removeClient: the new value of s.clients
removeClient(c) == clients \ {c}

\* readPump: ReadMessage returns an error (the peer went away or the
\* connection was closed); the deferred function runs: removeClient,
\* close(c.send), c.conn.Close(), and for the owner goes on to
\* requestShutdown.
ReadError(c) ==
    /\ cpc[c] = "read"
    /\ clients' = removeClient(c)
    /\ sendClosed' = [sendClosed EXCEPT ![c] = TRUE]
    /\ connOpen' = [connOpen EXCEPT ![c] = FALSE]
    /\ cpc' = [cpc EXCEPT ![c] = IF isOwner[c] THEN "shutdown" ELSE "gone"]
    /\ UNCHANGED <<sessVars, loopVars, closeVars, dataVars, statVars, osVars,
                   send, snap, wpc, written,
                   srvVars>>

\* A plausible slip in readPump's deferred function: removeClient is left
\* out.
ReadPumpKeepsClient(c) ==
    /\ cpc[c] = "read"
    /\ cpc' = [cpc EXCEPT ![c] = "close"]
    /\ UNCHANGED <<sessVars, loopVars, closeVars, dataVars, statVars, osVars,
                   clients, send, sendClosed, snap, wpc, written, connOpen,
                   srvVars>>

\* readPump, step by step: ReadMessage returns an error and the deferred
\* function begins with s.removeClient(c), which takes clientsMu.
ReadPumpRemove(c) ==
    /\ cpc[c] = "read"
    /\ clients' = removeClient(c)
    /\ cpc' = [cpc EXCEPT ![c] = "close"]
    /\ UNCHANGED <<sessVars, loopVars, closeVars, dataVars, statVars, osVars,
                   send, sendClosed, snap, wpc, written, connOpen,
                   srvVars>>

\* readPump's deferred function goes on, outside the mutex: close(c.send),
\* c.conn.Close(), and for the owner requestShutdown.
ReadPumpClose(c) ==
    /\ cpc[c] = "close"
    /\ sendClosed' = [sendClosed EXCEPT ![c] = TRUE]
    /\ connOpen' = [connOpen EXCEPT ![c] = FALSE]
    /\ cpc' = [cpc EXCEPT ![c] = IF isOwner[c] THEN "shutdown" ELSE "gone"]
    /\ UNCHANGED <<sessVars, loopVars, closeVars, dataVars, statVars, osVars,
                   clients, send, snap, wpc, written,
                   srvVars>>

\* ------------------------------------------------------------ control plane
\* A plausible slip in WriteInput: s.writeMu is not taken.
WriteInputUnlocked(c) ==
    /\ cpc[c] = "lock"
    /\ wShell' = [wShell EXCEPT ![c] = pty]
    /\ wn' = [wn EXCEPT ![c] = 0]
    /\ cpc' = [cpc EXCEPT ![c] = "write"]
    /\ UNCHANGED <<sessVars, loopVars, closeVars, dataVars, statVars, osVars,
                   clients, send, sendClosed, snap, wpc, written, connOpen,
                   restVars, inputs, resetVars, sizeVars, writeMu, nframes, werr>>

\* readPump: ReadMessage returns a binary frame and readPump calls
\* s.session.WriteInput(payload).
ReadBinary(c) ==
    /\ cpc[c] = "read"
    /\ connOpen[c]
    /\ nframes[c] < MaxInputs
    /\ nframes' = [nframes EXCEPT ![c] = @ + 1]
    /\ cpc' = [cpc EXCEPT ![c] = "lock"]
    /\ UNCHANGED <<sessVars, loopVars, closeVars, dataVars, statVars, osVars,
                   clients, send, sendClosed, snap, wpc, written, connOpen,
                   restVars, inputs, resetVars, sizeVars, writeMu, wShell, wn,
                   werr>>

\* Session.WriteInput: s.writeMu.Lock(), then ptyHandle := s.pty under s.mu.
WriteInputLock(c) ==
    /\ cpc[c] = "lock"
    /\ writeMu = NoRequest
    /\ writeMu' = c
    /\ wShell' = [wShell EXCEPT ![c] = pty]
    /\ wn' = [wn EXCEPT ![c] = 0]
    /\ cpc' = [cpc EXCEPT ![c] = "write"]
    /\ UNCHANGED <<sessVars, loopVars, closeVars, dataVars, statVars, osVars,
                   clients, send, sendClosed, snap, wpc, written, connOpen,
                   restVars, inputs, resetVars, sizeVars, nframes, werr>>

\* A plausible slip in WriteInput: the write goes to the PTY that is current
\* when it is made, not to the handle taken under s.mu.
WriteInputByteToCurrent(c) ==
    /\ cpc[c] = "write"
    /\ pty # NoShell
    /\ ptyOpen[pty]
    /\ wn[c] < InputLen
    /\ inputs' = Append(inputs,
                        [client |-> c, frame |-> nframes[c], byte |-> wn[c] + 1])
    /\ wn' = [wn EXCEPT ![c] = @ + 1]
    /\ UNCHANGED <<sessVars, loopVars, closeVars, dataVars, statVars, osVars,
                   regVars, restVars, resetVars, sizeVars, writeMu, wShell,
                   nframes, werr>>

\* Session.WriteInput: ptyHandle.Write(data) hands the block to the PTY in
\* one or more pieces; here one more byte of it.
WriteInputByte(c) ==
    /\ cpc[c] = "write"
    /\ wShell[c] # NoShell
    /\ ptyOpen[wShell[c]]
    /\ wn[c] < InputLen
    /\ inputs' = Append(inputs,
                        [client |-> c, frame |-> nframes[c], byte |-> wn[c] + 1])
    /\ wn' = [wn EXCEPT ![c] = @ + 1]
    /\ UNCHANGED <<sessVars, loopVars, closeVars, dataVars, statVars, osVars,
                   regVars, restVars, resetVars, sizeVars, writeMu, wShell,
                   nframes, werr>>

\* Session.WriteInput returns: "shell not ready" without a PTY, the error
\* of a write on a closed PTY, or nil after the whole block; the deferred
\* s.writeMu.Unlock() runs and readPump reads on.
WriteInputReturn(c) ==
    /\ cpc[c] = "write"
    /\ IF wShell[c] = NoShell
       THEN TRUE
       ELSE ~ptyOpen[wShell[c]] \/ wn[c] = InputLen
    /\ writeMu' = IF writeMu = c THEN NoRequest ELSE writeMu
    /\ wShell' = [wShell EXCEPT ![c] = NoShell]
    /\ wn' = [wn EXCEPT ![c] = 0]
    /\ werr' = [werr EXCEPT ![c] =
                   IF wShell[c] = NoShell THEN "shell not ready"
                   ELSE IF wn[c] = InputLen THEN "nil"
                   ELSE "file already closed"]
    /\ cpc' = [cpc EXCEPT ![c] = "read"]
    /\ UNCHANGED <<sessVars, loopVars, closeVars, dataVars, statVars, osVars,
                   clients, send, sendClosed, snap, wpc, written, connOpen,
                   restVars, inputs, resetVars, sizeVars, nframes>>

\* The steps of a WriteInput call once readPump has made it.
WriteInputStep(c) == WriteInputLock(c) \/ WriteInputByte(c) \/ WriteInputReturn(c)

\* A plausible slip in Resize: the size is recorded only when a PTY is
\* current.
ReadResizeNeedsPty(c, cols, rows) ==
    /\ cpc[c] = "read"
    /\ connOpen[c]
    /\ resized.n < MaxResizes
    /\ IF cols <= 0 \/ rows <= 0
       THEN /\ resized' = [n |-> resized.n + 1, cols |-> cols, rows |-> rows,
                           err |-> "invalid terminal size"]
            /\ UNCHANGED <<lastCols, lastRows, winsize>>
       ELSE IF pty = NoShell
            THEN /\ resized' = [n |-> resized.n + 1, cols |-> cols,
                                rows |-> rows, err |-> "nil"]
                 /\ UNCHANGED <<lastCols, lastRows, winsize>>
            ELSE /\ lastCols' = cols
                 /\ lastRows' = rows
                 /\ winsize' = IF ptyOpen[pty]
                               THEN [winsize EXCEPT ![pty] = <<cols, rows>>]
                               ELSE winsize
                 /\ resized' = [n |-> resized.n + 1, cols |-> cols,
                                rows |-> rows,
                                err |-> IF ptyOpen[pty] THEN "nil"
                                        ELSE "file already closed"]
    /\ UNCHANGED <<sessVars, loopVars, closeVars, dataVars, statVars, osVars,
                   regVars, restVars, inputs, resetVars, lockVars>>

\* readPump: a resize control frame, handleControl calls
\* s.session.Resize(cols, rows): "invalid terminal size" and nothing else
\* for a size that is not positive; else the size is recorded and the
\* current PTY, if any, is resized (the device fails when it was closed).
ReadResize(c, cols, rows) ==
    /\ cpc[c] = "read"
    /\ connOpen[c]
    /\ resized.n < MaxResizes
    /\ IF cols <= 0 \/ rows <= 0
       THEN /\ resized' = [n |-> resized.n + 1, cols |-> cols, rows |-> rows,
                           err |-> "invalid terminal size"]
            /\ UNCHANGED <<lastCols, lastRows, winsize>>
       ELSE /\ lastCols' = cols
            /\ lastRows' = rows
            /\ winsize' = IF pty # NoShell /\ ptyOpen[pty]
                          THEN [winsize EXCEPT ![pty] = <<cols, rows>>]
                          ELSE winsize
            /\ resized' = [n |-> resized.n + 1, cols |-> cols, rows |-> rows,
                           err |-> IF pty = NoShell \/ ptyOpen[pty] THEN "nil"
                                   ELSE "file already closed"]
    /\ UNCHANGED <<sessVars, loopVars, closeVars, dataVars, statVars, osVars,
                   regVars, restVars, inputs, resetVars, lockVars>>

\* Session.Reset, under s.mu: take cmd and pty; "shell not ready" when
\* there is none.
ResetBegin ==
    /\ resetPc = "idle"
    /\ Len(resetLog) < MaxResets
    /\ resetShell' = pty
    /\ IF pty = NoShell
       THEN resetResult' = "shell not ready" /\ resetPc' = "returned"
       ELSE resetResult' = "none" /\ resetPc' = "closePty"
    /\ UNCHANGED <<resetLog, resetKilled>>

\* readPump: a reset control frame, handleControl calls s.session.Reset().
ReadReset(c) ==
    /\ cpc[c] = "read"
    /\ connOpen[c]
    /\ ResetBegin
    /\ cpc' = [cpc EXCEPT ![c] = "reset"]
    /\ UNCHANGED <<sessVars, loopVars, closeVars, dataVars, statVars, osVars,
                   clients, send, sendClosed, snap, wpc, written, connOpen,
                   restVars, inputs, sizeVars, lockVars>>

\* Session.Reset is called while no client of the model is reading (the
\* caller is a client outside it).
ResetCall ==
    /\ \A c \in Requests : cpc[c] = "none"
    /\ ResetBegin
    /\ UNCHANGED <<sessVars, loopVars, closeVars, dataVars, statVars, osVars,
                   regVars, restVars, inputs, sizeVars, lockVars>>

\* Session.Reset: ptyHandle.Close()
ResetClosePty ==
    /\ resetPc = "closePty"
    /\ ptyOpen' = [ptyOpen EXCEPT ![resetShell] = FALSE]
    /\ resetPc' = "terminate"
    /\ UNCHANGED <<sessVars, loopVars, closeVars, dataVars, statVars,
                   nshell, alive, regVars, restVars, inputs,
                   resetShell, resetResult, resetLog, resetKilled,
                   sizeVars, lockVars>>

\* Session.Reset: terminateProcessTree(cmd.PID()) returns (nil, nil) when
\* the process group is gone, killed by it or not, and the survivors with
\* an error when it could not be terminated.
ResetTerminate(terminated) ==
    /\ resetPc = "terminate"
    /\ IF alive[resetShell] /\ ~terminated
       THEN /\ resetResult' = "some processes could not be terminated"
            /\ UNCHANGED <<alive, resetKilled>>
       ELSE /\ resetResult' = "ok"
            /\ alive' = [alive EXCEPT ![resetShell] = FALSE]
            /\ resetKilled' = IF alive[resetShell]
                              THEN resetKilled \cup {resetShell}
                              ELSE resetKilled
    /\ resetPc' = "returned"
    /\ UNCHANGED <<sessVars, loopVars, closeVars, dataVars, statVars,
                   nshell, ptyOpen, regVars, restVars, inputs,
                   resetShell, resetLog, sizeVars, lockVars>>

\* A plausible slip in handleControl: the notice is sent for survivors only,
\* not for an error without survivors.
handleControlSurvivorsOnly ==
    /\ resetPc = "returned"
    /\ LET failed == resetResult = "some processes could not be terminated"
       IN  /\ send' = IF failed THEN broadcast(ResetFailedMsg(resetResult)) ELSE send
           /\ resetLog' = Append(resetLog, [result |-> resetResult, notice |-> failed])
    /\ resetPc' = "idle"
    /\ resetShell' = NoShell
    /\ resetResult' = "none"
    /\ cpc' = [c \in Requests |-> IF cpc[c] = "reset" THEN "read" ELSE cpc[c]]
    /\ UNCHANGED <<sessVars, loopVars, closeVars, dataVars, statVars, osVars,
                   clients, sendClosed, snap, wpc, written, connOpen,
                   restVars, inputs, resetKilled, sizeVars, lockVars>>

\* handleControl after Reset has returned: broadcastResetFailure when Reset
\* returned an error or survivors; readPump reads on.
handleControl ==
    /\ resetPc = "returned"
    /\ LET failed == resetResult # "ok"
       IN  /\ send' = IF failed THEN broadcast(ResetFailedMsg(resetResult)) ELSE send
           /\ resetLog' = Append(resetLog, [result |-> resetResult, notice |-> failed])
    /\ resetPc' = "idle"
    /\ resetShell' = NoShell
    /\ resetResult' = "none"
    /\ cpc' = [c \in Requests |-> IF cpc[c] = "reset" THEN "read" ELSE cpc[c]]
    /\ UNCHANGED <<sessVars, loopVars, closeVars, dataVars, statVars, osVars,
                   clients, sendClosed, snap, wpc, written, connOpen,
                   restVars, inputs, resetKilled, sizeVars, lockVars>>

\* The steps of a Reset call and of its caller once it is made.
ResetStep ==
    \/ ResetClosePty
    \/ (\E terminated \in BOOLEAN : ResetTerminate(terminated))
    \/ handleControl

\* handleUpload, the access decision: an address that matches a rule may
\* upload when the rule's level is interact; an empty or unmatched address
\* may.
uploadAllowed(ip) ==
    IF ip # <<>>
    THEN LET m == MatchUserLevel(userLevels, ip)
         IN  IF m.matched THEN m.level = UserLevelInteract ELSE TRUE
    ELSE TRUE

\* handleUpload for a POST with one file: 403 when the caller may not
\* upload, 503 when the shell's directory is not available, else the file
\* is saved and the answer is 200.
handleUpload(ip, dirOK) ==
    /\ listening
    /\ Len(uploads) < MaxUploads
    /\ uploads' = Append(uploads,
            IF ~uploadAllowed(ip)
            THEN [ip |-> ip, status |-> StatusForbidden, saved |-> 0]
            ELSE IF ~dirOK
            THEN [ip |-> ip, status |-> StatusServiceUnavailable, saved |-> 0]
            ELSE [ip |-> ip, status |-> StatusOK, saved |-> 1])
    /\ UNCHANGED <<sessVars, loopVars, closeVars, dataVars, statVars, osVars,
                   regVars, ownVars, shutVars, cfgVars, apiVars, fnVars, remoteIP, inputs>>

\* ------------------------------------------------------- Start and shutdown
\* Start's closure shutdown: srv.Shutdown closes the listeners; the
\* connections taken over by the WebSocket upgrade are not its concern.
shutdown(caller) ==
    /\ httpShutdowns' = Append(httpShutdowns, caller)
    /\ listening' = FALSE

\* Start, lines 115-141: the routes, listenAll, the two broadcasters and one
\* Serve goroutine per listener are started.
StartListen ==
    /\ startPc = "new"
    /\ listening' = TRUE
    /\ startPc' = "serving"
    /\ UNCHANGED <<sessVars, loopVars, closeVars, dataVars, statVars, osVars,
                   regVars, ownVars, shutdownFunc, shutdownOnce, watchPc,
                   httpShutdowns, ctxDone, ctlVars>>

\* Start, lines 143-148: s.shutdownFunc = shutdown.  The field is written
\* here and read by requestShutdown without synchronization; a reader sees
\* nil until this step.
StartSetShutdownFunc ==
    /\ startPc = "serving"
    /\ shutdownFunc' = TRUE
    /\ startPc' = "watch"
    /\ UNCHANGED <<sessVars, loopVars, closeVars, dataVars, statVars, osVars,
                   regVars, ownVars, shutdownOnce, watchPc, listening,
                   httpShutdowns, ctxDone, ctlVars>>

\* Start, lines 150-166: the goroutine waiting for the session's end and
\* the one waiting for the context are started; Start waits on errCh.
StartWatch ==
    /\ startPc = "watch"
    /\ watchPc' = "wait"
    /\ startPc' = "waiting"
    /\ UNCHANGED <<sessVars, loopVars, closeVars, dataVars, statVars, osVars,
                   regVars, ownVars, shutdownFunc, shutdownOnce, listening,
                   httpShutdowns, ctxDone, ctlVars>>

\* Start, lines 169-186: a Serve call fails for another reason than a
\* shutdown; Start calls shutdown and returns the error.
StartServeFails ==
    /\ startPc = "waiting"
    /\ listening
    /\ shutdown("Start")
    /\ startPc' = "returned"
    /\ UNCHANGED <<sessVars, loopVars, closeVars, dataVars, statVars, osVars,
                   regVars, ownVars, shutdownFunc, shutdownOnce, watchPc,
                   ctxDone, ctlVars>>

\* Start, lines 169-186: every Serve call has returned ErrServerClosed;
\* Start returns.
StartReturn ==
    /\ startPc = "waiting"
    /\ ~listening
    /\ startPc' = "returned"
    /\ UNCHANGED <<sessVars, loopVars, closeVars, dataVars, statVars, osVars,
                   regVars, ownVars, shutdownFunc, shutdownOnce, watchPc,
                   listening, httpShutdowns, ctxDone, ctlVars>>

\* The context given to Start is cancelled.
CtxCancel ==
    /\ ~ctxDone
    /\ ctxDone' = TRUE
    /\ UNCHANGED <<sessVars, loopVars, closeVars, dataVars, statVars, osVars,
                   regVars, ownVars, shutdownFunc, shutdownOnce, startPc,
                   watchPc, listening, httpShutdowns, ctlVars>>

\* Start, lines 159-165: on ctx.Done the goroutine calls shutdown.
WatchCtxShutdown ==
    /\ startPc = "waiting"
    /\ ctxDone
    /\ "ctx" \notin {httpShutdowns[i] : i \in DOMAIN httpShutdowns}
    /\ shutdown("ctx")
    /\ UNCHANGED <<sessVars, loopVars, closeVars, dataVars, statVars, osVars,
                   regVars, ownVars, shutdownFunc, shutdownOnce, startPc,
                   watchPc, ctxDone, ctlVars>>

\* Start, lines 150-156: on session.Done the goroutine calls
\* requestShutdown; on ctx.Done it ends.
WatchSession ==
    /\ watchPc = "wait"
    /\ \/ chClosed /\ watchPc' = "shutdown"
       \/ ctxDone /\ watchPc' = "exit"
    /\ UNCHANGED <<sessVars, loopVars, closeVars, dataVars, statVars, osVars,
                   regVars, ownVars, shutdownFunc, shutdownOnce, startPc,
                   listening, httpShutdowns, ctxDone, ctlVars>>

\* Somebody is in a call of requestShutdown.
InRequestShutdown ==
    \/ watchPc = "shutdown"
    \/ \E c \in Requests : cpc[c] = "shutdown"

\* requestShutdown: the first caller enters shutdownOnce.Do and calls
\* s.session.Close(), which under s.mu returns if closed is set and else
\* sets it and takes cmd and pty.
RequestShutdownEnter ==
    /\ InRequestShutdown
    /\ shutdownOnce = "idle"
    /\ shutdownOnce' = "running"
    /\ IF closed
       THEN UNCHANGED <<closed, closeVars>>
       ELSE /\ closed' = TRUE
            /\ closeShell' = pty
            /\ closePc' = "closePty"
    /\ UNCHANGED <<pty, exitOnShellExit, loopVars, dataVars, statVars, osVars,
                   regVars, ownVars, shutdownFunc, startPc, watchPc, listening,
                   httpShutdowns, ctxDone, ctlVars>>

\* requestShutdown: Close has returned; s.shutdownFunc is called if it is
\* not nil; shutdownOnce.Do returns.
RequestShutdownFinish ==
    /\ shutdownOnce = "running"
    /\ closePc = "idle"
    /\ IF shutdownFunc
       THEN shutdown("requestShutdown")
       ELSE UNCHANGED <<httpShutdowns, listening>>
    /\ shutdownOnce' = "done"
    /\ UNCHANGED <<sessVars, loopVars, closeVars, dataVars, statVars, osVars,
                   regVars, ownVars, shutdownFunc, startPc, watchPc, ctxDone,
                   ctlVars>>

\* requestShutdown returns to the owner's readPump once shutdownOnce.Do
\* has run; the handler goroutine ends.
RequestShutdownReturn(c) ==
    /\ cpc[c] = "shutdown"
    /\ shutdownOnce = "done"
    /\ cpc' = [cpc EXCEPT ![c] = "gone"]
    /\ UNCHANGED <<sessVars, loopVars, closeVars, dataVars, statVars, osVars,
                   clients, send, sendClosed, snap, wpc, written, connOpen,
                   srvVars>>

\* requestShutdown returns to the goroutine that waited for session.Done.
WatchReturn ==
    /\ watchPc = "shutdown"
    /\ shutdownOnce = "done"
    /\ watchPc' = "exit"
    /\ UNCHANGED <<sessVars, loopVars, closeVars, dataVars, statVars, osVars,
                   regVars, ownVars, shutdownFunc, shutdownOnce, startPc,
                   listening, httpShutdowns, ctxDone, ctlVars>>

\* --------------------------------------------------------- specifications
BroadcastStep == broadcastOutput \/ broadcastStatus

\* The steps of a handler goroutine after the upgrade, and of its writer.
ServeStep(c) == TakeSnapshot(c) \/ SendSnapshot(c)

WriterStep(c) == WriteFrame(c) \/ WriteEnd(c)

ClientStep(c) ==
    \/ HandleWS(c, <<"a">>)
    \/ ServeStep(c)
    \/ WriterStep(c)
    \/ ReadError(c)

\* The session with its clients while a shell runs: output is read and
\* fanned out, clients connect, are served and leave.
Next ==
    \/ RLTop \/ RLStartShell \/ setPTY \/ RLStarted
    \/ (\E n \in 1..MaxChunk : RLRead(n)) \/ RLEmit
    \/ BroadcastStep
    \/ (\E c \in Clients : ClientStep(c))

\* Start has set the server up before the first client connects.
ServingInit == NewSession(FALSE) /\ Serving(DefaultRules)

Spec == ServingInit /\ [][Next]_vars

\* The session alone, in either configuration: shells start or fail to
\* start, produce output, exit and are respawned; Close and Reset are
\* called at any moment; the channels are drained.
SessInit == \E exit \in BOOLEAN : InitWith(exit, DefaultRules)

\* The steps runLoop takes by itself around a shell that writes nothing.
ShellLifeStep ==
    \/ RLTop \/ RLStartShell \/ RLStartFailed \/ RLSleep \/ setPTY \/ RLStarted
    \/ RLReadError \/ RLClosePty \/ RLWait \/ clearPTY
    \/ RLExited \/ RLFinalize

\* The steps of runLoop and readLoop that the session takes by itself.
RunLoopStep == ShellLifeStep \/ RLEmit

\* The rest of a Close call once it holds cmd and pty.
CloseStep == ClosePty \/ CloseKill

SessNext ==
    \/ RunLoopStep
    \/ (\E n \in 1..MaxChunk : RLRead(n))
    \/ (\E s \in Shells : ShellExit(s))
    \/ CloseCall
    \/ CloseStep
    \/ BroadcastStep

SessSpec == SessInit /\ [][SessNext]_vars

\* Goroutines that can run do run: the run loop, a Close call under way and
\* the broadcasters.  What the shell writes, when it exits and when Close is
\* called are up to the environment.
SessFair ==
    /\ SessSpec
    /\ WF_vars(RunLoopStep)
    /\ WF_vars(CloseStep)
    /\ WF_vars(BroadcastStep)

\* The session around shells that write nothing, with Close and Reset
\* callers: shells start, exit by themselves or are terminated by Reset,
\* and the status channel is drained.
ShellNext ==
    \/ ShellLifeStep
    \/ (\E s \in Shells : ShellExit(s))
    \/ CloseCall
    \/ CloseStep
    \/ ResetCall
    \/ ResetStep
    \/ broadcastStatus

ShellSpec == SessInit /\ [][ShellNext]_vars

\* The session with both emitters at work next to Close and Reset callers:
\* the shell writes, and it ends when Reset closes its PTY and terminates
\* it.
ChanNext ==
    \/ RunLoopStep
    \/ (\E n \in 1..MaxChunk : RLRead(n))
    \/ CloseCall
    \/ CloseStep
    \/ ResetCall
    \/ ResetStep
    \/ BroadcastStep

ChanSpec == SessInit /\ [][ChanNext]_vars

\* Live output next to snapshots: the shell writes, readLoop appends and
\* emits, the output broadcaster delivers, and clients connect at any
\* moment and are written their frames.
LiveNext ==
    \/ RLTop \/ RLStartShell \/ setPTY \/ RLStarted
    \/ (\E n \in 1..MaxChunk : RLRead(n)) \/ RLEmit
    \/ broadcastOutput
    \/ (\E c \in Clients :
           \/ HandleWS(c, <<"a">>)
           \/ ServeStep(c)
           \/ WriteFrame(c))

LiveSpec == ServingInit /\ [][LiveNext]_vars

\* The fan-out to several clients: the statuses of failed and successful
\* shell starts are broadcast to clients that connect, are served, drain
\* their queues at their own pace and leave.
FanNext ==
    \/ RLTop \/ RLStartFailed \/ RLSleep
    \/ RLStartShell \/ setPTY \/ RLStarted
    \/ broadcastStatus
    \/ (\E c \in Requests : ClientStep(c))

FanSpec == ServingInit /\ [][FanNext]_vars

\* Input from several clients: clients connect and send binary frames to
\* the shell.
InputNext ==
    \/ RLTop \/ RLStartShell \/ setPTY \/ RLStarted
    \/ (\E c \in Requests :
           \/ HandleWS(c, <<"a">>)
           \/ ServeStep(c)
           \/ ReadBinary(c)
           \/ WriteInputStep(c))

InputSpec == ServingInit /\ [][InputNext]_vars

\* The registry and the queues: the statuses of failed shell starts are
\* broadcast while clients connect, are served and leave, their readers'
\* exit taken step by step and their writers ending at any moment.
QueueNext ==
    \/ RLTop \/ RLStartFailed \/ RLSleep
    \/ broadcastStatus
    \/ (\E c \in Requests :
           \/ HandleWS(c, <<"a">>)
           \/ ServeStep(c)
           \/ WriteEnd(c)
           \/ ReadPumpRemove(c)
           \/ ReadPumpClose(c))

QueueSpec == ServingInit /\ [][QueueNext]_vars

\* Input around a respawn: one client connects and sends binary frames
\* while shells start, exit and are replaced.
GapNext ==
    \/ RLTop \/ RLStartShell \/ setPTY \/ RLStarted
    \/ RLReadError \/ RLClosePty \/ RLWait \/ clearPTY \/ RLExited
    \/ (\E s \in Shells : ShellExit(s))
    \/ (LET c == 1
        IN  \/ HandleWS(c, <<"a">>)
            \/ ServeStep(c)
            \/ ReadBinary(c)
            \/ WriteInputStep(c))

GapSpec == ServingInit /\ [][GapNext]_vars

\* Resize frames: a client connects and sends resize frames, with sizes
\* that are positive or not, while shells start, exit and are respawned.
ResizeNext ==
    \/ RLTop \/ RLStartShell \/ setPTY \/ RLStarted
    \/ RLReadError \/ RLClosePty \/ RLWait \/ clearPTY \/ RLExited
    \/ (\E s \in Shells : ShellExit(s))
    \/ (\E c \in Clients :
           \/ HandleWS(c, <<"a">>)
           \/ ServeStep(c)
           \/ (\E cols \in 0..MaxSide, rows \in 0..1 :
                  ReadResize(c, cols, rows)))

ResizeSpec == ServingInit /\ [][ResizeNext]_vars

\* Reset frames: clients connect and send reset frames while shells start,
\* exit and are respawned; Reset runs step by step with the run loop.
ResetNext ==
    \/ RLTop \/ RLStartShell \/ RLStartFailed \/ RLSleep \/ setPTY \/ RLStarted
    \/ RLReadError \/ RLClosePty \/ RLWait \/ clearPTY \/ RLExited
    \/ (\E s \in Shells : ShellExit(s))
    \/ ResetStep
    \/ (\E c \in Requests :
           \/ HandleWS(c, <<"a">>)
           \/ ServeStep(c)
           \/ ReadReset(c)
           \/ ReadError(c))

ResetSpec == ServingInit /\ [][ResetNext]_vars

\* -------------------------------------------- functions applied by themselves
\* Every variable of the program.
progVars ==
    <<sessVars, loopVars, closeVars, dataVars, statVars, osVars, regVars,
      ownVars, shutVars, cfgVars, remoteIP, inputs, uploads, apiVars>>

\* The program at rest while a function is applied.
AtRest == Session(FALSE) /\ New(DefaultRules)

\* Sequences over S of length 0..n.
SeqsUpTo(S, n) == UNION {[1..k -> S] : k \in 0..n}

\* The bytes fed to the title parser: every byte it tells apart, '2' for
\* the digits; ']', ';' and '2' are title text too.
OSCBytes == {ESC, BEL, RBracket, Semicolon, Backslash, Digit2}

\* Complete OSC sequences: ESC ], a parameter (none, 2 or 22), ';', a
\* title (short, longer than the buffer, with an ESC inside) and BEL or
\* ESC backslash.
TitleSeqs ==
    {<<ESC, RBracket>> \o param \o <<Semicolon>> \o title \o end :
        param \in {<<>>, <<Digit2>>, <<Digit2, Digit2>>},
        title \in {<<Digit2>>, <<Semicolon, RBracket>>,
                   <<Digit2, ESC, Semicolon>>,
                   [i \in 1..(MaxSize + 1) |-> RBracket]},
        end \in {<<BEL>>, <<ESC, Backslash>>}}

\* The inputs of the title parser: every short sequence, and every two
\* complete OSC sequences one after the other.
FeedInputs ==
    SeqsUpTo(OSCBytes, FeedLen) \cup {a \o b : a \in TitleSeqs, b \in TitleSeqs}

\* readLoop made a fresh parser and has fed it nothing of the input yet;
\* chunked: the input was fed in more than one call.
FeedInit ==
    /\ AtRest
    /\ fnIn \in FeedInputs
    /\ fnOut = [pos |-> 0, chunked |-> FALSE, p |-> newOSCTitleParser,
                titles |-> <<>>]

\* readLoop: parser.Feed(chunk) with the next n bytes of the input.
FeedCall(n) ==
    /\ fnOut.pos + n <= Len(fnIn)
    /\ LET r == Feed(fnOut.p, SubSeq(fnIn, fnOut.pos + 1, fnOut.pos + n))
       IN  fnOut' = [pos |-> fnOut.pos + n,
                     chunked |-> fnOut.pos > 0,
                     p |-> r.p,
                     titles |-> fnOut.titles \o r.titles]
    /\ UNCHANGED <<progVars, fnIn>>

FeedNext == \E n \in 1..(2 * (MaxSize + 8)) : FeedCall(n)

FeedSpec == FeedInit /\ [][FeedNext]_vars

\* The sequences of a sequence of sequences, one after the other.
RECURSIVE Flat(_)
Flat(ss) == IF ss = <<>> THEN <<>> ELSE Head(ss) \o Flat(Tail(ss))

\* Title texts without a terminator: plain bytes and ESC with a byte that
\* is not the backslash, none to one more than the buffer holds.
OscTexts ==
    {Flat(us) : us \in SeqsUpTo({<<Digit2>>, <<Semicolon>>, <<ESC, Digit2>>},
                                MaxSize + 1)}

\* Parameters: none, 0, 1, 2, 02, and the two smallest that do not fit the
\* int and wrap to 0 and to 2.
OscParams ==
    {<<>>, <<Digit0>>, <<Digit1>>, <<Digit2>>, <<Digit0, Digit2>>,
     Itoa(2 ^ IntBits), Itoa(2 ^ IntBits + 2)}

\* What precedes a sequence: nothing, text, a lone ESC, an introducer
\* broken off after ']' or after a digit, an unfinished title, an
\* unfinished title ending in ESC, a complete sequence.
OscPrefixes ==
    {<<>>, <<RBracket>>, <<ESC>>, <<ESC, RBracket>>,
     <<ESC, RBracket, Digit1>>,
     <<ESC, RBracket, Digit0, Semicolon, Digit2>>,
     <<ESC, RBracket, Digit0, Semicolon, Digit2, ESC>>,
     <<ESC, RBracket, Semicolon, Digit2, BEL>>}

\* ESC ] param ; text and BEL or ESC backslash.
OscSeq(param, text, end) ==
    <<ESC, RBracket>> \o param \o <<Semicolon>> \o text \o end

\* The inputs of the byte-by-byte runs: every short sequence, and every
\* prefix followed by a sequence.
OscInputs ==
    SeqsUpTo(OSCBytes, MaxSize + 1)
    \cup {pre \o OscSeq(param, text, end) :
             pre \in OscPrefixes, param \in OscParams, text \in OscTexts,
             end \in {<<BEL>>, <<ESC, Backslash>>}}

\* readLoop made a fresh parser; the input arrives one byte per read.
OscInit ==
    /\ AtRest
    /\ fnIn \in OscInputs
    /\ fnOut = [pos |-> 0, chunked |-> FALSE, p |-> newOSCTitleParser,
                titles |-> <<>>]

OscNext == FeedCall(1)

OscSpec == OscInit /\ [][OscNext]_vars

\* The titles given to the decoder: a beginning (nothing, the literal, the
\* literal cut short, the literal and more, something before the literal)
\* followed by every short text of '|', spaces and a letter.
TitleInputs ==
    {head \o tail :
        head \in {<<>>, AlicesMirror, SubSeq(AlicesMirror, 1, 12),
                  AlicesMirror \o <<"c">>, <<" ">> \o AlicesMirror},
        tail \in SeqsUpTo({"|", " ", "c"}, TitleLen)}

\* Nothing was applied to the input yet.
NotApplied == [done |-> FALSE]

\* readLoop is about to call captureTitle with a title of the parser.
TitleInit == AtRest /\ fnIn \in TitleInputs /\ fnOut = NotApplied

\* captureTitle: parseAlicesMirrorTitle(title)
ParseTitle ==
    /\ ~fnOut.done
    /\ fnOut' = [done |-> TRUE, r |-> parseAlicesMirrorTitle(fnIn)]
    /\ UNCHANGED <<progVars, fnIn>>

TitleNext == ParseTitle

TitleSpec == TitleInit /\ [][TitleNext]_vars

\* The texts given as --user-level: every short text over ',', '-', space,
\* a letter, '*', the digits 0, 1, 2 and '+', and every list of two or
\* three items, each a rule or one of the usual ways not to be one.
RuleChars == {",", "-", " ", "a", "*", "0", "1", "2", "+"}

RuleItems ==
    {<<"a", "-", "0">>, <<"*", "-", "1">>, <<" ", "a", " ", "-", " ", "1", " ">>,
     <<"a", "-", "a", "-", "1">>, <<"a", "-", "0", "1">>, <<"a", "-", "+", "1">>,
     <<"a", "-", "2">>, <<"a", "-", "1", "0">>, <<"a", "-", "a">>,
     <<"a", "-">>, <<"-", "1">>, <<"a">>, <<" ">>, <<>>}

RECURSIVE Join(_)
Join(items) ==
    IF Len(items) = 1 THEN items[1]
    ELSE items[1] \o <<",">> \o Join(Tail(items))

RuleInputs ==
    SeqsUpTo(RuleChars, RuleLen)
        \cup {Join(items) : items \in UNION {[1..n -> RuleItems] : n \in 2..MaxRules}}

\* Validate is about to check --user-level.
RulesInit == AtRest /\ fnIn \in RuleInputs /\ fnOut = NotApplied

\* Validate: server.ParseUserLevelRules(userLevel)
ParseRules ==
    /\ ~fnOut.done
    /\ fnOut' = [done |-> TRUE, r |-> ParseUserLevelRules(fnIn)]
    /\ UNCHANGED <<progVars, fnIn>>

RulesNext == ParseRules

RulesSpec == RulesInit /\ [][RulesNext]_vars

\* The rule lists a server is configured with and the addresses looked up:
\* up to MaxRules rules of either level with patterns of one or two of a
\* letter and '*', and every address of up to three of two letters.
MatchPatterns == SeqsUpTo({"a", "*"}, 2) \ {<<>>}

MatchRules ==
    {Rule(pattern, level) :
        pattern \in MatchPatterns,
        level \in {UserLevelInteract, UserLevelWatchOnly}}

MatchIPs == SeqsUpTo({"a", "b"}, 3)

\* A server made with some rule list is about to look an address up.
MatchInit ==
    /\ \E rules \in SeqsUpTo(MatchRules, MaxRules) : Session(FALSE) /\ New(rules)
    /\ fnIn \in MatchIPs
    /\ fnOut = NotApplied

\* handleUpload: MatchUserLevel(s.userLevels, remoteIP) and uploadAllowed.
MatchCall ==
    /\ ~fnOut.done
    /\ fnOut' = [done |-> TRUE,
                 r |-> MatchUserLevel(userLevels, fnIn),
                 uploadAllowed |-> uploadAllowed(fnIn)]
    /\ UNCHANGED <<progVars, fnIn>>

MatchNext == MatchCall

MatchSpec == MatchInit /\ [][MatchNext]_vars

\* The code points of the file names: NUL, a control character, white
\* space (the tab is a control character too), both separators, the dot, an
\* invalid character and a letter.
NameRunes == {NUL, SOH, Tab, Space, Dot, Slash, Backslash, Colon, LetterA}

NameInputs == SeqsUpTo(NameRunes, NameLen)

NameInit == AtRest /\ fnIn \in NameInputs /\ fnOut = NotApplied

\* handleUpload: sanitizeFilename(filename)
Sanitize ==
    /\ ~fnOut.done
    /\ fnOut' = [done |-> TRUE, name |-> sanitizeFilename(fnIn)]
    /\ UNCHANGED <<progVars, fnIn>>

NameNext == Sanitize

NameSpec == NameInit /\ [][NameNext]_vars

\* The names given to createUniqueFile: letters and dots, as
\* sanitizeFilename lets them through.
UniqueNames == SeqsUpTo({LetterA, Dot}, NameLen - 1) \ {<<>>, <<Dot>>, <<Dot, Dot>>}

\* The names that may exist in the directory beforehand: the candidates, one
\* more than createUniqueFile tries, and another file.
DirNames(filename) ==
    {Candidate(filename, k) : k \in 0..NameTries} \cup {<<LetterA, Colon>>}

\* A directory, a name, and no call made yet.
UniqueInit ==
    /\ AtRest
    /\ fnIn \in UniqueNames
    /\ \E d \in SUBSET DirNames(fnIn) :
           fnOut = [done |-> FALSE, ncalls |-> 0, dir0 |-> d, dir |-> d,
                    created |-> <<>>]

\* handleUpload: createUniqueFile(targetDir, safeName), once more on the
\* same directory with the same name.
CreateCall(failAt) ==
    /\ fnOut.ncalls < MaxCreates
    /\ LET r == createUniqueFile(fnOut.dir, fnIn, failAt)
       IN  fnOut' = [done |-> TRUE,
                     ncalls |-> fnOut.ncalls + 1,
                     dir0 |-> fnOut.dir0,
                     dir |-> r.dir,
                     created |-> IF r.err = "nil"
                                 THEN Append(fnOut.created, r.name)
                                 ELSE fnOut.created,
                     before |-> fnOut.dir,
                     failAt |-> failAt,
                     r |-> r]
    /\ UNCHANGED <<progVars, fnIn>>

UniqueNext == \E failAt \in {NoFailure} \cup (0..(NameTries - 1)) : CreateCall(failAt)

UniqueSpec == UniqueInit /\ [][UniqueNext]_vars

\* Two uploads at once: each handler calls createUniqueFile for the same
\* directory and name and copies its part into the file it was given.  A
\* file is a name, the number of the creation of that name, the call that
\* created it and whether the name still leads to it.
Uploaders == {1, 2}

\* The names in the directory.
Linked(files) == {f.name : f \in {g \in files : g.linked}}

\* The files ever created under a name.
Created(files, name) == {f \in files : f.name = name}

\* A call that has made no attempt yet.
NoAttempt == [pc |-> "open", counter |-> 0, name |-> <<>>, gen |-> 0, err |-> "none"]

RaceInit ==
    /\ AtRest
    /\ fnIn \in {<<LetterA>>, <<LetterA, Dot, LetterA>>}
    /\ \E d \in SUBSET {Candidate(fnIn, k) : k \in 0..NameTries} :
           fnOut = [files |-> {[name |-> n, gen |-> 1, by |-> NoRequest,
                                linked |-> TRUE] : n \in d},
                    call |-> [k \in Uploaders |-> NoAttempt],
                    writes |-> {}]

\* A slip in createUniqueFile: the file is opened without O_EXCL, so an
\* existing file is opened as it is.
OpenStepNoExcl(k, fails) ==
    /\ fnOut.call[k].pc = "open"
    /\ LET me == fnOut.call[k]
           candidate == Candidate(fnIn, me.counter)
           gen == Cardinality(Created(fnOut.files, candidate))
       IN  IF fails
           THEN fnOut' = [fnOut EXCEPT !.call[k].pc = "failed",
                                       !.call[k].err = "open"]
           ELSE fnOut' = [fnOut EXCEPT
                    !.files = IF candidate \in Linked(@) THEN @
                              ELSE @ \cup {[name |-> candidate, gen |-> gen + 1,
                                            by |-> k, linked |-> TRUE]},
                    !.call[k] = [pc |-> "copy", counter |-> me.counter,
                                 name |-> candidate,
                                 gen |-> IF candidate \in Linked(fnOut.files)
                                         THEN gen ELSE gen + 1,
                                 err |-> "nil"]]
    /\ UNCHANGED <<progVars, fnIn>>

\* createUniqueFile, one turn of its loop: the collision error after the
\* last counter; else os.OpenFile with O_CREATE|O_EXCL, which in one system
\* call creates the candidate if no file has the name, fails with
\* os.ErrExist if one has (the next counter is tried) or fails otherwise.
OpenStep(k, fails) ==
    /\ fnOut.call[k].pc = "open"
    /\ LET me == fnOut.call[k]
           candidate == Candidate(fnIn, me.counter)
           gen == Cardinality(Created(fnOut.files, candidate))
       IN  IF me.counter >= NameTries
           THEN fnOut' = [fnOut EXCEPT !.call[k].pc = "failed",
                                       !.call[k].err = "too many name collisions"]
           ELSE IF fails
           THEN fnOut' = [fnOut EXCEPT !.call[k].pc = "failed",
                                       !.call[k].err = "open"]
           ELSE IF candidate \in Linked(fnOut.files)
           THEN fnOut' = [fnOut EXCEPT !.call[k].counter = @ + 1]
           ELSE fnOut' = [fnOut EXCEPT
                    !.files = @ \cup {[name |-> candidate, gen |-> gen + 1,
                                       by |-> k, linked |-> TRUE]},
                    !.call[k] = [pc |-> "copy", counter |-> me.counter,
                                 name |-> candidate, gen |-> gen + 1,
                                 err |-> "nil"]]
    /\ UNCHANGED <<progVars, fnIn>>

\* handleUpload: io.Copy(file, part) and file.Close(); when either fails,
\* os.Remove of the path, which unlinks the file that has the name.
CopyStep(k, ok) ==
    /\ fnOut.call[k].pc = "copy"
    /\ LET me == fnOut.call[k]
       IN  fnOut' = [fnOut EXCEPT
                !.writes = @ \cup {[by |-> k, name |-> me.name, gen |-> me.gen]},
                !.files = IF ok THEN @
                          ELSE {IF f.name = me.name
                                THEN [f EXCEPT !.linked = FALSE] ELSE f : f \in @},
                !.call[k].pc = IF ok THEN "saved" ELSE "removed"]
    /\ UNCHANGED <<progVars, fnIn>>

RaceNext ==
    \E k \in Uploaders :
        \/ (\E fails \in BOOLEAN : OpenStep(k, fails))
        \/ (\E ok \in BOOLEAN : CopyStep(k, ok))

RaceSpec == RaceInit /\ [][RaceNext]_vars

\* The mobile wrapper: one Server, started and stopped by its embedder.  A
\* run is numbered by its start; it has a context, a session and a serve
\* goroutine.  cancel and session are the runs whose cancel function and
\* session the Server holds (NoRun for nil); discovery is off.
Runs == 1..MaxRuns

NoRun == 0

\* Nothing taken from the Server.
Nothing == [cancel |-> NoRun, session |-> NoRun]

\* mobile.NewServer, and no call in progress.  stopping and taken[r] are
\* the locals of the cleanup of Stop and of the goroutine of run r; errors
\* are the runs for which OnError was called.
MobileInit ==
    /\ AtRest
    /\ fnIn = NoRun
    /\ fnOut = [running |-> FALSE, cancel |-> NoRun, session |-> NoRun,
                caller |-> "idle", started |-> 0, cancelled |-> {},
                sessionClosed |-> {}, errors |-> {}, stopping |-> Nothing,
                serve |-> [r \in Runs |-> "none"],
                taken |-> [r \in Runs |-> Nothing]]

\* Server.cleanup under the mutex: the fields are reset.
cleanup(m) ==
    [m EXCEPT !.cancel = NoRun, !.session = NoRun, !.running = FALSE]

\* Server.cleanup after the mutex: the cancel function that was taken is
\* called and the session that was taken is closed, unless nil.
TearDown(m, t) ==
    [m EXCEPT !.cancelled = IF t.cancel # NoRun THEN @ \cup {t.cancel} ELSE @,
              !.sessionClosed =
                  IF t.session # NoRun THEN @ \cup {t.session} ELSE @]

\* StartWithUserLevelAndAllowIPs, its beginning: "server is already
\* running" unless running is false; the mutex is released.
StartCheck ==
    /\ fnOut.caller = "idle"
    /\ fnOut.started < MaxRuns
    /\ ~fnOut.running
    /\ fnOut' = [fnOut EXCEPT !.caller = "starting"]
    /\ UNCHANGED <<progVars, fnIn>>

\* The rest of it: an error of the configuration, of NewSession or of
\* server.New returns with nothing set; else the fields are set under the
\* mutex and the goroutine that runs srv.Start(ctx) is started.
StartCommit(ok) ==
    /\ fnOut.caller = "starting"
    /\ fnOut' = IF ok
                THEN LET r == fnOut.started + 1
                     IN  [fnOut EXCEPT !.caller = "idle", !.started = r,
                                       !.running = TRUE, !.cancel = r,
                                       !.session = r, !.serve[r] = "serving"]
                ELSE [fnOut EXCEPT !.caller = "idle"]
    /\ UNCHANGED <<progVars, fnIn>>

\* Server.Stop: "server is not running" unless running; else cleanup, here
\* its part under the mutex.
Stop ==
    /\ fnOut.caller = "idle"
    /\ fnOut.running
    /\ fnOut' = [cleanup(fnOut) EXCEPT
                    !.caller = "stopping",
                    !.stopping = [cancel |-> fnOut.cancel,
                                  session |-> fnOut.session]]
    /\ UNCHANGED <<progVars, fnIn>>

\* Server.Stop, the rest of its cleanup; Stop returns.
StopTearDown ==
    /\ fnOut.caller = "stopping"
    /\ fnOut' = [TearDown(fnOut, fnOut.stopping) EXCEPT
                    !.caller = "idle", !.stopping = Nothing]
    /\ UNCHANGED <<progVars, fnIn>>

\* The goroutine of run r: srv.Start(ctx) returns, because the context of
\* the run was cancelled or with an error of its own, which is reported if
\* the context is not cancelled; cleanup follows, here its part under the
\* mutex.
ServeReturns(r, failed) ==
    /\ fnOut.serve[r] = "serving"
    /\ failed \/ r \in fnOut.cancelled
    /\ fnOut' = [cleanup(fnOut) EXCEPT
                    !.serve[r] = "cleanup",
                    !.errors = IF failed /\ r \notin fnOut.cancelled
                               THEN @ \cup {r} ELSE @,
                    !.taken[r] = [cancel |-> fnOut.cancel,
                                  session |-> fnOut.session]]
    /\ UNCHANGED <<progVars, fnIn>>

\* The goroutine of run r, the rest of its cleanup.
ServeTearDown(r) ==
    /\ fnOut.serve[r] = "cleanup"
    /\ fnOut' = [TearDown(fnOut, fnOut.taken[r]) EXCEPT
                    !.serve[r] = "done", !.taken[r] = Nothing]
    /\ UNCHANGED <<progVars, fnIn>>

MobileNext ==
    \/ StartCheck
    \/ (\E ok \in BOOLEAN : StartCommit(ok))
    \/ Stop
    \/ StopTearDown
    \/ (\E r \in Runs :
           \/ (\E failed \in BOOLEAN : ServeReturns(r, failed))
           \/ ServeTearDown(r))

MobileSpec == MobileInit /\ [][MobileNext]_vars

\* Basic auth: a serving server with credentials configured (neither is
\* empty when BuildAuthConfig enables it; a password may hold a colon) and an
\* owner token; requests with every kind of Authorization header arrive on
\* the three routes.
AuthConfigs ==
    {[Enabled |-> TRUE, User |-> <<"u">>, Password |-> pw] :
        pw \in {<<"p">>, <<":", "p">>}}

CredTexts ==
    {<<"u", ":", "p">>, <<"u", ":", ":", "p">>, <<"u", ":">>, <<":", "p">>,
     <<"u">>, <<"p", ":", "u">>}

Headers ==
    {NoHeader,
     [scheme |-> "Bearer", decodes |-> TRUE, text |-> <<"u", ":", "p">>],
     [scheme |-> "Basic", decodes |-> FALSE, text |-> <<"u", ":", "p">>]}
    \cup {[scheme |-> "Basic", decodes |-> TRUE, text |-> t] : t \in CredTexts}

AuthInit ==
    /\ NewSession(TRUE)
    /\ Listening(DefaultRules)
    /\ auth \in AuthConfigs
    /\ authz \in [Requests -> Headers]

AuthNext ==
    \E c \in Requests :
        \/ Unauthorized(c, <<"a">>)
        \/ ServeStatic(c, <<"a">>)
        \/ HandleWS(c, <<"a">>)
        \/ HandleWSFails(c, <<"a">>)
        \/ (\E query \in {ownerToken, <<>>} : HandleWSOwner(c, <<"a">>, query))
        \/ OwnerUpgrade(c)
        \/ OwnerUpgradeFails(c)

AuthSpec == AuthInit /\ [][AuthNext]_vars

\* The owner route: requests on /ws-owner with no token, the owner token,
\* the owner token between white space and other tokens.
Tokens ==
    {<<>>, ownerToken, <<" ">> \o ownerToken, ownerToken \o <<" ">>,
     <<"t">>, <<"k", "t">>, <<"t", " ", "k">>, ownerToken \o <<"k">>}

TokenInit == NewSession(TRUE) /\ Serving(DefaultRules)

TokenNext ==
    \E c \in Requests :
        \/ (\E query \in Tokens : HandleWSOwner(c, <<"a">>, query))
        \/ OwnerUpgrade(c)
        \/ OwnerUpgradeFails(c)

TokenSpec == TokenInit /\ [][TokenNext]_vars

\* ------------------------------------------------ the process-tree terminator
\* The processes of the shell's tree; the shell itself is the first.
Pids == 1..MaxPids

\* What terminateProcessTree returns.
Terminated == [survivors |-> {}, err |-> "nil"]
NotReady == [survivors |-> {}, err |-> "shell not ready"]
Remaining(ps) == [survivors |-> ps, err |-> "some processes could not be terminated"]

\* terminateProcessTree of reset_unix.go.  seen[i] is the set of processes
\* of the group that probe i finds: the waits after SIGTERM, after SIGKILL
\* and after sudo kill, then isProcessGroupAlive and listProcessGroup.
terminateUnix(pid, seen) ==
    IF pid <= 0 THEN NotReady
    ELSE IF seen[1] = {} THEN Terminated
    ELSE IF seen[2] = {} THEN Terminated
    ELSE IF seen[3] = {} THEN Terminated
    ELSE IF seen[4] = {} THEN Terminated
    ELSE Remaining(IF seen[5] = {} THEN {pid} ELSE seen[5])

\* terminateProcessTree of the Windows build.  seen[i] is the process tree
\* that probe i finds: the waits after taskkill and after taskkill /F, then
\* listProcessTree and isProcessAlive(pid).
terminateWindows(pid, seen) ==
    IF pid <= 0 THEN NotReady
    ELSE IF seen[1] = {} THEN Terminated
    ELSE IF seen[2] = {} THEN Terminated
    ELSE Remaining(IF seen[3] = {} /\ pid \in seen[4] THEN {pid} ELSE seen[3])

terminateProcessTree(platform, pid, seen) ==
    IF platform = "windows"
    THEN terminateWindows(pid, seen)
    ELSE terminateUnix(pid, seen)

\* Reset is about to call terminateProcessTree, on either platform, for no
\* process or for the shell; processes exit and are spawned between the
\* probes.
TermInit ==
    /\ AtRest
    /\ fnIn \in [platform : {"unix", "windows"},
                 pid : {0, 1},
                 seen : [1..5 -> SUBSET Pids]]
    /\ fnOut = NotApplied

TerminateCall ==
    /\ ~fnOut.done
    /\ fnOut' = [done |-> TRUE,
                 r |-> terminateProcessTree(fnIn.platform, fnIn.pid, fnIn.seen)]
    /\ UNCHANGED <<progVars, fnIn>>

TermNext == TerminateCall

TermSpec == TermInit /\ [][TermNext]_vars

\* Uploads: a target directory with or without a file "a", and a multipart
\* body of up to MaxParts parts, each with no file name, the name "a" or a
\* name that is rejected, and each of the fates.
UploadParts ==
    [filename : {<<>>, <<LetterA>>, <<Dot>>},
     fate : {"saved", "unreadable", "create fails", "copy fails"}]

UploadInit ==
    /\ AtRest
    /\ fnIn \in [dir : SUBSET {<<LetterA>>},
                 parts : SeqsUpTo(UploadParts, MaxParts)]
    /\ fnOut = NotApplied

\* handleUpload, lines 201-264
UploadCall ==
    /\ ~fnOut.done
    /\ fnOut' = [done |-> TRUE, r |-> saveUpload(fnIn.dir, fnIn.parts)]
    /\ UNCHANGED <<progVars, fnIn>>

UploadNext == UploadCall

UploadSpec == UploadInit /\ [][UploadNext]_vars

\* Access control: a serving server under any of the rule lists; a shell
\* starts, clients connect from either address and send input, files are
\* uploaded.
CtlInit == \E rules \in RuleLists : NewSession(FALSE) /\ Serving(rules)

CtlNext ==
    \/ RLTop \/ RLStartShell \/ setPTY \/ RLStarted
    \/ broadcastStatus
    \/ (\E c \in Requests :
           \/ (\E ip \in {<<"a">>, <<"b">>} : HandleWS(c, ip))
           \/ ServeStep(c)
           \/ WriterStep(c)
           \/ ReadBinary(c)
           \/ WriteInputStep(c)
           \/ ReadError(c))
    \/ (\E ip \in IPs : \E dirOK \in BOOLEAN : handleUpload(ip, dirOK))

CtlSpec == CtlInit /\ [][CtlNext]_vars

\* The whole server in share mode (an owner token is configured, the
\* session ends with its shell), from server.New on: Start runs, requests
\* arrive on /ws and /ws-owner, connections end, the shell exits, the
\* context is cancelled.  The shell is silent and the status messages stay
\* in statusCh (emitStatus never blocks), so the clients' queues are empty
\* and a writer has nothing to do but end when its queue is closed; the
\* fan-out is the subject of Spec.  A /ws request whose upgrade fails
\* leaves nothing behind and is left out.
SrvInit == InitWith(TRUE, DefaultRules)

StartStep == StartListen \/ StartSetShutdownFunc \/ StartWatch \/ StartReturn

WatchStep == WatchSession \/ WatchCtxShutdown \/ WatchReturn

RequestShutdownStep ==
    \/ RequestShutdownEnter
    \/ RequestShutdownFinish
    \/ (\E c \in Requests : RequestShutdownReturn(c))

\* The steps a handler goroutine takes by itself.
HandlerStep(c) == OwnerUpgrade(c) \/ ServeStep(c)

\* ReadMessage fails on a connection that was closed on this side.
ReadClosed(c) == ~connOpen[c] /\ ReadError(c)

SrvNext ==
    \/ StartStep
    \/ StartServeFails
    \/ CtxCancel
    \/ WatchStep
    \/ RequestShutdownStep
    \/ CloseStep
    \/ ShellLifeStep
    \/ (\E s \in Shells : ShellExit(s))
    \/ (\E c \in Requests :
           \/ HandleWS(c, <<"a">>)
           \/ (\E query \in {ownerToken, <<>>} : HandleWSOwner(c, <<"a">>, query))
           \/ OwnerUpgradeFails(c)
           \/ HandlerStep(c)
           \/ WriteEnd(c)
           \/ ReadError(c))

SrvSpec == SrvInit /\ [][SrvNext]_vars

\* The owner endpoint at a server in share mode that Start has set up:
\* requests arrive on /ws and /ws-owner with and without the token, upgrades
\* succeed or fail, connections end, the owner's end shuts the server
\* down, the shell runs and exits.
OwnerInit == NewSession(TRUE) /\ Serving(DefaultRules)

OwnerNext ==
    \/ StartReturn
    \/ WatchSession \/ WatchReturn
    \/ RequestShutdownStep
    \/ CloseStep
    \/ ShellLifeStep
    \/ (\E s \in Shells : ShellExit(s))
    \/ (\E c \in Requests :
           \/ HandleWS(c, <<"a">>)
           \/ HandleWSFails(c, <<"a">>)
           \/ (\E query \in {ownerToken, <<>>} : HandleWSOwner(c, <<"a">>, query))
           \/ OwnerUpgradeFails(c)
           \/ HandlerStep(c)
           \/ WriteEnd(c)
           \/ ReadError(c))

OwnerSpec == OwnerInit /\ [][OwnerNext]_vars

\* Shutdown of a server in share mode that Start has set up: the owner
\* comes and goes, the context is cancelled, the shell exits.
StopNext ==
    \/ StartReturn
    \/ CtxCancel
    \/ WatchSession \/ WatchCtxShutdown \/ WatchReturn
    \/ RequestShutdownStep
    \/ CloseStep
    \/ ShellLifeStep
    \/ (\E s \in Shells : ShellExit(s))
    \/ (\E c \in Requests :
           \/ HandleWSOwner(c, <<"a">>, ownerToken)
           \/ HandlerStep(c)
           \/ WriteEnd(c)
           \/ ReadError(c))

StopSpec == OwnerInit /\ [][StopNext]_vars

\* Goroutines that can run do run, as in SrvFair below.
StopFair ==
    /\ StopSpec
    /\ WF_vars(StartReturn)
    /\ WF_vars(WatchSession \/ WatchCtxShutdown \/ WatchReturn)
    /\ WF_vars(RequestShutdownStep)
    /\ WF_vars(CloseStep)
    /\ WF_vars(ShellLifeStep)
    /\ \A c \in Requests :
          /\ WF_vars(HandlerStep(c))
          /\ WF_vars(WriteEnd(c))
          /\ WF_vars(~connOpen[c] /\ ReadError(c))

\* Goroutines that can run do run: Start, its watchers, a requestShutdown
\* call, a Close call, the run loop, the handlers and the writers; a read on a connection closed on this side fails.  When
\* requests arrive, when a peer goes away, when the shell exits and when
\* the context is cancelled are up to the environment.
SrvFair ==
    /\ SrvSpec
    /\ WF_vars(StartStep)
    /\ WF_vars(WatchStep)
    /\ WF_vars(RequestShutdownStep)
    /\ WF_vars(CloseStep)
    /\ WF_vars(ShellLifeStep)
    /\ \A c \in Requests :
          /\ WF_vars(HandlerStep(c))
          /\ WF_vars(WriteEnd(c))
          /\ WF_vars(ReadClosed(c))

\* ------------------------------------------------------------ properties
Range(s) == {s[i] : i \in DOMAIN s}

\* a is a subsequence of b: b with some elements left out.
RECURSIVE IsSubseq(_, _)
IsSubseq(a, b) ==
    IF a = <<>> THEN TRUE
    ELSE IF b = <<>> THEN FALSE
    ELSE IF Head(a) = Head(b) THEN IsSubseq(Tail(a), Tail(b))
    ELSE IsSubseq(a, Tail(b))

\* The data of the frames of one kind among fs, in order.
RECURSIVE DataOf(_, _)
DataOf(fs, kind) ==
    IF fs = <<>> THEN <<>>
    ELSE (IF Head(fs).kind = kind THEN <<Head(fs).data>> ELSE <<>>)
         \o DataOf(Tail(fs), kind)

IsBinary(m) == m.messageType = BinaryMessage

\* The binary frames of client c in the order they reach the socket:
\* the ones written, then the ones still queued.
Stream(c) == written[c] \o SelectSeq(send[c], IsBinary)

\* C1: what a client receives holds no byte twice: no byte of a live frame
\* written to its socket is also in the snapshot frame written to it.
C1_SnapshotAndLiveDisjoint ==
    \A c \in Clients :
        \A i, j \in DOMAIN written[c] :
            (written[c][i].kind = "snapshot" /\ written[c][j].kind = "output")
            => Range(written[c][i].data) \cap Range(written[c][j].data) = {}

\* C2: in every client's queue order the snapshot frame comes before every
\* live output frame.
C2_SnapshotBeforeLive ==
    \A c \in Clients :
        \A i, j \in DOMAIN Stream(c) :
            (Stream(c)[i].kind = "output" /\ Stream(c)[j].kind = "snapshot")
            => j < i

\* C3: the live output chunks written to a client's socket are a
\* subsequence of the chunks read from the PTY (none twice, none out of
\* order).
C3_LiveIsSubsequenceOfReads ==
    \A c \in Clients : IsSubseq(DataOf(written[c], "output"), chunks)

\* C3 witness: a client was sent two live chunks, one was dropped or lost and
\* the other written.
C3_Witness ==
    \E c \in Clients :
        /\ Len(chunks) >= 2
        /\ Len(DataOf(written[c], "output")) = 1
        /\ DataOf(written[c], "output")[1] = chunks[2]

\* C4: the ring buffer holds the last min(N, total) bytes of everything
\* appended, so never more than N bytes.
C4_RingHoldsLastN ==
    /\ Bytes(buffer) = LastN(Flatten(chunks), BufferSize)
    /\ Len(Bytes(buffer)) <= BufferSize

\* C4 witness: appends shorter than the capacity have overflowed it.
C4_Witness ==
    /\ Len(Flatten(chunks)) > BufferSize
    /\ \A i \in DOMAIN chunks : Len(chunks[i]) < BufferSize
    /\ Len(buffer) = BufferSize

\* The address matches a rule and the first one it matches is watch-only.
WatchOnly(ip) ==
    LET m == MatchUserLevel(userLevels, ip)
    IN  m.matched /\ m.level = UserLevelWatchOnly

\* C5: a caller whose address matches a watch-only rule has no effect: no
\* input frame of such a client is written to the PTY, and its upload is
\* answered 403 and saves no file.
C5_WatchOnlyHasNoEffect ==
    /\ \A i \in DOMAIN inputs : ~WatchOnly(remoteIP[inputs[i].client])
    /\ \A i \in DOMAIN uploads :
          WatchOnly(uploads[i].ip)
          => (uploads[i].status = StatusForbidden /\ uploads[i].saved = 0)

\* An owner request that passed the ownerConnected test and whose
\* connection has not ended.
Admitted(c) ==
    isOwner[c] /\ cpc[c] \in {"upgrade", "snapshot", "sendSnapshot", "read"}

\* C6: at most one owner request is admitted at a time, at most one owner
\* client is registered, and a request answered 409 registers no client
\* and opens no connection.
C6_AtMostOneOwner ==
    /\ Cardinality({c \in Requests : Admitted(c)}) <= 1
    /\ Cardinality({c \in clients : isOwner[c]}) <= 1
    /\ \A c \in Requests :
          cpc[c] = StatusConflict
          => (c \notin clients /\ ~connOpen[c] /\ ~isOwner[c])

\* C6 witness: an owner is connected and registered and a later owner
\* request with the right token was answered 409.
C6_Witness ==
    \E c, d \in Requests :
        /\ Admitted(c) /\ cpc[c] = "read" /\ c \in clients
        /\ cpc[d] = StatusConflict

\* The calls of srv.Shutdown made by requestShutdown.
ShutdownsByRequest ==
    {i \in DOMAIN httpShutdowns : httpShutdowns[i] = "requestShutdown"}

\* C7: once the owner's reader has exited and its requestShutdown call has
\* returned, the session is closed and requestShutdown has invoked the HTTP
\* shutdown, exactly once.
C7_OwnerExitShutsDown ==
    \A c \in Requests :
        (isOwner[c] /\ cpc[c] = "gone")
        => (closed /\ Cardinality(ShutdownsByRequest) = 1)

\* The owner's reader has exited.
OwnerGone == \E c \in Requests : isOwner[c] /\ cpc[c] \in {"shutdown", "gone"}

\* C8: after the owner disconnects the listeners stop accepting and every
\* client connection is closed and removed from the registry.
C8_OwnerDisconnectClosesAll ==
    OwnerGone ~> (/\ ~listening
                  /\ clients = {}
                  /\ \A c \in Requests : ~connOpen[c])

\* The run loop is past a shell exit and on its way out: the session was
\* closed or is configured to end with its shell.
Finalizing ==
    \/ rl = "exited" /\ (closed \/ exitOnShellExit)
    \/ rl = "finalize"
    \/ rl = "done"

\* The run loop is past a shell exit and about to respawn.
Respawning == rl = "exited" /\ ~closed /\ ~exitOnShellExit

\* The run loop announced the respawn of the first shell and no second
\* shell was started since.
RespawnAnnounced ==
    /\ "Shell exited. Respawning now." \in Range(statusCh)
    /\ nshell = 1

C10_CloseEndsRunLoop ==
    closed ~> (/\ rl = "done"
               /\ chClosed
               /\ \A s \in Shells : ~ptyOpen[s] /\ ~alive[s])

\* A step of the run loop that attempts a send on outputCh or statusCh:
\* emitOutput or emitStatus is called and finds the session not closed.
SendAttempt ==
    /\ ~closed
    /\ \/ rl = "start" /\ rl' = "sleep"
       \/ rl = "started" /\ rl' = "read"
       \/ rl = "emit" /\ rl' = "read"
       \/ rl = "exited" /\ rl' \in {"finalize", "top"}

\* A step that calls closeChannels: the run loop returns.
ClosesChannels == rl # "done" /\ rl' = "done"

\* C11: outputCh, statusCh and doneCh are closed at most once, by the run
\* loop as it returns and with the closed flag set; once closed they stay
\* closed and the closed flag stays set; no step attempts a send on a closed
\* channel; whatever the interleaving of run loop, Close and Reset.
C11_ChannelsClosedOnceNoSendAfter ==
    /\ [][ClosesChannels => (~chClosed /\ chClosed' /\ closed')]_vars
    /\ [][chClosed' # chClosed => ClosesChannels]_vars
    /\ [][chClosed => closed']_vars
    /\ [][SendAttempt => (~chClosed /\ ~chClosed')]_vars

\* C11 witness: the channels are closed after shells ran, a Reset was
\* handled and Close was called, with a status still queued.
C11_Witness ==
    /\ chClosed
    /\ nshell > 0
    /\ resetLog # <<>>
    /\ closePc # "idle"
    /\ statusCh # <<>>

\* The shells of which something is left: an open PTY or a running process.
LiveShells == {s \in Shells : ptyOpen[s] \/ alive[s]}

\* C12: at most one PTY and command pair exists at any moment, and the run
\* loop starts a shell only when the PTY of every earlier shell is closed
\* and its process has been waited for, also across Reset and failed
\* starts.
C12_AtMostOneShell ==
    /\ [](Cardinality(LiveShells) <= 1)
    /\ [][nshell' # nshell => (LiveShells = {} /\ LiveShells' = {nshell'})]_vars

\* C12 witness: a second shell runs after Reset closed the PTY of the first
\* and terminated it.
C12_Witness ==
    /\ nshell = 2
    /\ LiveShells = {2}
    /\ 1 \in resetKilled
    /\ resetLog # <<>>

\* A step delivers msg as broadcast does: the queue of a registered client
\* that is full is left unchanged, msg is appended to the queue of every
\* other registered client.
Delivers(msg) ==
    \A c \in clients :
        send'[c] = IF Len(send[c]) >= SendCap
                   THEN send[c]
                   ELSE send[c] \o <<msg>>

\* C13: a broadcast never blocks: whenever a status waits in statusCh the
\* broadcaster can take it, whatever the state of the clients' queues; the
\* step that takes it drops the message for every registered client whose
\* queue is full, leaving that queue unchanged, and gives it to every other
\* registered client.
C13_BroadcastNeverBlocks ==
    /\ [](statusCh # <<>> => ENABLED broadcastStatus)
    /\ [][Len(statusCh') < Len(statusCh)
            => Delivers(StatusMsg(Head(statusCh)))]_vars

\* C13 witness: of two registered clients the first has a full queue and
\* the second holds a status the first was not given.
C13_Witness ==
    /\ {1, 2} \subseteq clients
    /\ Len(send[1]) = SendCap
    /\ \E i \in 1..Len(send[2]) :
           \A j \in 1..Len(send[1]) : send[1][j].data # send[2][i].data

\* C14: the bytes one WriteInput call hands to the PTY form one contiguous
\* block, in their order and never mixed with the bytes of another call, and
\* the blocks of one client are in the order of its frames: a byte that
\* reaches the PTY is the next byte of the block before it, or the first
\* byte of a frame of which nothing was written yet and which is later than
\* every frame its client has written from.
C14_InputBlocksContiguous ==
    \A j \in 1..Len(inputs) :
        IF /\ j > 1
           /\ inputs[j - 1].client = inputs[j].client
           /\ inputs[j - 1].frame = inputs[j].frame
        THEN inputs[j].byte = inputs[j - 1].byte + 1
        ELSE /\ inputs[j].byte = 1
             /\ \A k \in 1..(j - 1) :
                    inputs[k].client = inputs[j].client
                        => inputs[k].frame < inputs[j].frame

\* C14 witness: two clients wrote concurrently; the second client's block
\* reached the PTY between two blocks of the first, while the first client
\* was already waiting for the lock.
C14_Witness ==
    /\ Len(inputs) = 3 * InputLen
    /\ inputs[1].client = 1
    /\ inputs[InputLen + 1].client = 2
    /\ inputs[2 * InputLen + 1].client = 1

\* C15, in a form a finite run refutes: after the exit of a shell that Reset
\* terminated the run loop goes on to start a fresh shell; it does not set
\* out to end the session, whatever exitOnShellExit.
C15_ResetIsFollowedByRespawn == ~(rl = "finalize" /\ nshell \in resetKilled)

\* A step in which handleControl deals with the result of Reset.
HandlesReset == resetPc = "returned" /\ resetPc' # "returned"

\* The text frames of kind reset-failed in the queue of client c.
Notices(c) == {i \in 1..Len(send[c]) : send[c][i].kind = "reset-failed"}

\* C16: when handleControl deals with the result of Reset, a reset-failed
\* notice is broadcast to the registered clients if Reset returned an error
\* or survivors ("shell not ready" included), nothing is broadcast if it
\* returned neither, and a notice is queued by no other step; Reset is not
\* called again: the call is over and the caller reads its next frame.
C16_ResetFailedNoticeIffFailure ==
    /\ [][HandlesReset =>
            /\ IF resetResult \in {"shell not ready",
                                   "some processes could not be terminated"}
               THEN Delivers(ResetFailedMsg(resetResult))
               ELSE send' = send
            /\ resetPc' = "idle"
            /\ \A c \in Requests : cpc[c] = "reset" => cpc'[c] = "read"]_vars
    /\ [][(\E c \in Requests : Cardinality(Notices(c))' > Cardinality(Notices(c)))
            => HandlesReset]_vars

\* C16 witness: a reset frame sent while no shell was current has been
\* handled, its notice is in the queues of both registered clients and both
\* read on.
C16_Witness ==
    /\ resetLog # <<>>
    /\ resetLog[1].result = "shell not ready"
    /\ resetPc = "idle"
    /\ clients = {1, 2}
    /\ \A c \in clients : cpc[c] = "read" /\ Notices(c) # {}

\* C17: whatever the chunks in which a byte sequence is fed to one parser,
\* the titles emitted so far are those, in the same order, that a fresh
\* parser emits when fed the same bytes in one call.
C17_FeedIgnoresChunking ==
    fnOut.titles =
        Feed(newOSCTitleParser, SubSeq(fnIn, 1, fnOut.pos)).titles

\* C17 witness: a sequence was fed in more than one chunk and two different
\* titles were emitted, the second as long as the buffer.
C17_Witness ==
    /\ fnOut.pos = Len(fnIn)
    /\ fnOut.chunked
    /\ Len(fnOut.titles) = 2
    /\ fnOut.titles[1] # fnOut.titles[2]
    /\ Len(fnOut.titles[2]) = MaxSize
    /\ Len(fnOut.titles) = 2
    /\ fnOut.titles[1] # fnOut.titles[2]

\* s is t with white space before and after it, and t has none at either
\* end.
IsTrimOf(t, s) ==
    /\ t = <<>> \/ (~IsSpace(t[1]) /\ ~IsSpace(t[Len(t)]))
    /\ \E i \in 0..Len(s) :
           /\ i + Len(t) <= Len(s)
           /\ SubSeq(s, i + 1, i + Len(t)) = t
           /\ \A k \in 1..Len(s) :
                  (k <= i \/ k > i + Len(t)) => IsSpace(s[k])

\* The positions of the first and the second '|' of a title whose text
\* before the first '|' starts with the literal (and so is not empty).
Bars(title) ==
    {b \in (1..Len(title)) \X (1..Len(title)) :
        /\ b[1] < b[2]
        /\ title[b[1]] = "|"
        /\ title[b[2]] = "|"
        /\ \A k \in 1..(b[2] - 1) : k # b[1] => title[k] # "|"
        /\ b[1] - 1 >= Len(AlicesMirror)
        /\ \A k \in 1..Len(AlicesMirror) : title[k] = AlicesMirror[k]}

\* C18: parseAlicesMirrorTitle returns ok exactly when the title is
\* prefix|cwd|proc, with a prefix that starts with the literal, a second
\* '|', and something other than white space between the two '|' or after
\* the second; cwd and proc are then the trimmed text between the two '|'
\* and the trimmed text after the second; otherwise both are empty.
C18_TitleDecodedIffWellFormed ==
    fnOut.done =>
        /\ fnOut.r.ok <=>
               \E b \in Bars(fnIn) :
                   \E k \in (b[1] + 1)..Len(fnIn) : k # b[2] /\ ~IsSpace(fnIn[k])
        /\ fnOut.r.ok =>
               \A b \in Bars(fnIn) :
                   /\ IsTrimOf(fnOut.r.cwd, SubSeq(fnIn, b[1] + 1, b[2] - 1))
                   /\ IsTrimOf(fnOut.r.proc, SubSeq(fnIn, b[2] + 1, Len(fnIn)))
        /\ ~fnOut.r.ok => (fnOut.r.cwd = <<>> /\ fnOut.r.proc = <<>>)

\* C18 witness: a title with white space around its cwd, an empty proc and
\* more than the literal before the first '|' was decoded.
C18_Witness ==
    /\ fnOut.done
    /\ fnOut.r.ok
    /\ fnOut.r.proc = <<>>
    /\ fnOut.r.cwd = <<"c">>
    /\ Len(fnIn) = Len(AlicesMirror) + TitleLen
    /\ fnIn[Len(AlicesMirror) + 1] = "c"

\* The positions of the commas of a text, with one before and one after
\* it, and the k-th item: the text between the k-th and the next.
Commas(raw) ==
    {0, Len(raw) + 1} \cup {i \in 1..Len(raw) : raw[i] = ","}

ItemAt(raw, i) ==
    LET next == CHOOSE j \in Commas(raw) :
                    j > i /\ \A k \in Commas(raw) : k > i => k >= j
    IN  SubSeq(raw, i + 1, next - 1)

ItemsOf(raw) ==
    LET starts == Commas(raw) \ {Len(raw) + 1}
        nth[k \in 1..Cardinality(starts)] ==
            CHOOSE i \in starts : Cardinality({j \in starts : j < i}) = k - 1
    IN  [k \in 1..Cardinality(starts) |-> ItemAt(raw, nth[k])]

\* text is a numeral of level: white space aside, an optional '+', any
\* number of zeros and, for level 1, a final 1 (for level 0 a final 0).
IsLevelText(text, level) ==
    \E t \in {<<"0">>, <<"1">>, <<"+", "0">>, <<"+", "1">>} :
    \E zeros \in 0..Len(text) :
        /\ t[Len(t)] = (IF level = UserLevelWatchOnly THEN "1" ELSE "0")
        /\ IsTrimOf(SubSeq(t, 1, Len(t) - 1) \o [i \in 1..zeros |-> "0"]
                        \o <<t[Len(t)]>>,
                    text)

\* item is pattern-level: pattern is the trimmed text before its last '-',
\* not empty, and the text after it is a numeral of level.
IsRuleText(item, rule) ==
    \E i \in 1..Len(item) :
        /\ item[i] = "-"
        /\ \A k \in (i + 1)..Len(item) : item[k] # "-"
        /\ rule.Pattern # <<>>
        /\ IsTrimOf(rule.Pattern, SubSeq(item, 1, i - 1))
        /\ IsLevelText(SubSeq(item, i + 1, Len(item)), rule.Level)

\* The rule an item stands for, if any: what is before its last '-' and
\* either level.
RulesFor(item) ==
    {rule \in {Rule(TrimSpace(SubSeq(item, 1, i - 1)), level) :
                  i \in 1..Len(item),
                  level \in {UserLevelInteract, UserLevelWatchOnly}} :
        IsRuleText(item, rule)}

\* C19: ParseUserLevelRules returns no error exactly when every item of the
\* comma-separated list is pattern-level with a pattern that is not empty
\* and a level that is 0 or 1; it then returns one rule for each item, in
\* the order of the items; with an error (empty list, empty item, no '-',
\* empty pattern, empty level, another level) it returns no rules.
C19_RulesParsedIffWellFormed ==
    fnOut.done =>
        LET items == ItemsOf(fnIn)
            r == fnOut.r
        IN  /\ r.err = NoError <=> \A k \in 1..Len(items) : RulesFor(items[k]) # {}
            /\ r.err = NoError =>
                   /\ Len(r.rules) = Len(items)
                   /\ \A k \in 1..Len(items) : IsRuleText(items[k], r.rules[k])
            /\ r.err # NoError => r.rules = <<>>

\* C19 witness: a list of two rules with different patterns and levels was
\* parsed, the first with white space around its parts.
C19_Witness ==
    /\ fnOut.done
    /\ fnOut.r.err = NoError
    /\ Len(fnOut.r.rules) = 2
    /\ fnOut.r.rules[1] = Rule(<<"a">>, UserLevelWatchOnly)
    /\ fnOut.r.rules[2] = Rule(<<"*">>, UserLevelWatchOnly)
    /\ Head(fnIn) = " "

\* The whole of ip matches pattern, every '*' standing for a run of
\* characters: cut[i] characters of ip are matched by the first i of
\* pattern.
Matches(pattern, ip) ==
    \E cut \in [0..Len(pattern) -> 0..Len(ip)] :
        /\ cut[0] = 0
        /\ cut[Len(pattern)] = Len(ip)
        /\ \A i \in 1..Len(pattern) :
               IF pattern[i] = "*"
               THEN cut[i] >= cut[i - 1]
               ELSE cut[i] = cut[i - 1] + 1 /\ ip[cut[i]] = pattern[i]

\* C20: MatchUserLevel returns the level of the first rule, in the order of
\* the list, whose pattern matches the whole address, and true, whatever
\* the rules after it; with no such rule it returns interact and false,
\* and the upload of such an address is allowed.
C20_FirstMatchingRuleDecides ==
    fnOut.done =>
        LET hits == {k \in 1..Len(userLevels) :
                        Matches(userLevels[k].Pattern, fnIn)}
        IN  /\ fnOut.r.matched <=> hits # {}
            /\ \A k \in hits :
                   (\A j \in hits : k <= j) => fnOut.r.level = userLevels[k].Level
            /\ hits = {} =>
                   /\ fnOut.r.level = UserLevelInteract
                   /\ fnOut.uploadAllowed

\* C20 witness: the address matches both rules of the list, with different
\* levels, and the level of the first was returned.
C20_Witness ==
    /\ fnOut.done
    /\ Len(userLevels) = 2
    /\ Matches(userLevels[1].Pattern, fnIn)
    /\ Matches(userLevels[2].Pattern, fnIn)
    /\ userLevels[1].Level = UserLevelWatchOnly
    /\ userLevels[2].Level = UserLevelInteract
    /\ fnOut.r.level = UserLevelWatchOnly
    /\ Len(fnIn) = 3

\* The code points a path component must not contain: the separators, the
\* control characters and < > : " | ? *.
Forbidden == (0..31) \cup {47, 92, 60, 62, 58, 34, 124, 63, 42}

\* n is a single path component as C21 describes it.
IsComponent(n) ==
    /\ n # <<>>
    /\ \A i \in 1..Len(n) : n[i] \notin Forbidden
    /\ ~IsSpaceRune(n[1])
    /\ ~IsSpaceRune(n[Len(n)])
    /\ n # <<Dot>>
    /\ n # <<Dot, Dot>>

\* n is a name of letters and dots other than "." and "..".
IsPlainName(n) ==
    /\ n # <<>>
    /\ \A i \in 1..Len(n) : n[i] \in {LetterA, Dot}
    /\ n # <<Dot>>
    /\ n # <<Dot, Dot>>

\* C21: sanitizeFilename returns "" or a single path component (no
\* separator, no control character, none of < > : " | ? *, no white space
\* at either end, not "." or ".."); a plain name is returned as it is, and
\* whatever precedes it up to a separator of either kind is discarded.
C21_SanitizedNameIsOneComponent ==
    fnOut.done =>
        /\ fnOut.name = <<>> \/ IsComponent(fnOut.name)
        /\ IsPlainName(fnIn) => fnOut.name = fnIn
        /\ \A i \in 1..Len(fnIn) :
               (/\ fnIn[i] \in {Slash, Backslash}
                /\ IsPlainName(SubSeq(fnIn, i + 1, Len(fnIn))))
               => fnOut.name = SubSeq(fnIn, i + 1, Len(fnIn))

\* C21 witness: of "\a: " the directory part and the white space are
\* discarded and the colon is replaced.
C21_Witness ==
    /\ fnOut.done
    /\ fnIn = <<Backslash, LetterA, Colon, Space>>
    /\ fnOut.name = <<LetterA, 95>>

\* The k-th name of the sequence of C22: the name itself, then " (k)" put
\* in front of the last dot of the name, or at its end when it has no dot
\* but a leading one.
NumberedName(name, k) ==
    LET dots == {i \in 2..Len(name) : name[i] = Dot}
        cut == IF dots = {}
               THEN Len(name) + 1
               ELSE CHOOSE i \in dots : \A j \in dots : j <= i
        digits == [i \in 1..(IF k < 10 THEN 1 ELSE 2) |->
                     IF k < 10 THEN 48 + k
                     ELSE IF i = 1 THEN 48 + (k \div 10) ELSE 48 + (k % 10)]
    IN  IF k = 0 THEN name
        ELSE SubSeq(name, 1, cut - 1) \o <<32, 40>> \o digits \o <<41>>
                 \o SubSeq(name, cut, Len(name))

\* The numbers of the names of the sequence that do not exist in dir.
FreeNumbers(dir) == {k \in 0..(NameTries - 1) : NumberedName(fnIn, k) \notin dir}

\* C22: a call of createUniqueFile leaves every existing file alone; it
\* returns without error exactly the first name of the sequence name,
\* "base (1)ext", "base (2)ext", ... that does not exist yet and creates
\* it, unless opening a file fails for another reason than its existence;
\* with an error it creates nothing, and it returns the collision error
\* when every candidate exists (as many as it tries, NameTries here and
\* 10000 in the code); repeated calls return the free names of the sequence
\* in order.
C22_UniqueFileIsFirstFreeName ==
    fnOut.done =>
        LET free == FreeNumbers(fnOut.before)
            free0 == FreeNumbers(fnOut.dir0)
        IN  /\ fnOut.r.err = "nil" =>
                  /\ free # {}
                  /\ fnOut.r.name = NumberedName(fnIn,
                         CHOOSE k \in free : \A j \in free : k <= j)
                  /\ fnOut.r.name \notin fnOut.before
                  /\ fnOut.dir = fnOut.before \cup {fnOut.r.name}
            /\ fnOut.r.err # "nil" =>
                  /\ fnOut.dir = fnOut.before
                  /\ fnOut.r.name = <<>>
            /\ (free = {} /\ fnOut.failAt = NoFailure)
                  => fnOut.r.err = "too many name collisions"
            /\ (free # {} /\ fnOut.failAt = NoFailure) => fnOut.r.err = "nil"
            /\ fnOut.r.err = "open" => fnOut.failAt # NoFailure
            /\ \A i \in 1..Len(fnOut.created) :
                  \E k \in free0 :
                      /\ Cardinality({j \in free0 : j < k}) = i - 1
                      /\ fnOut.created[i] = NumberedName(fnIn, k)

\* C22 witness: "a.a" exists; two calls create "a (1).a" and "a (2).a" and
\* a third fails with every candidate taken.
C22_Witness ==
    /\ fnOut.done
    /\ fnIn = <<LetterA, Dot, LetterA>>
    /\ fnOut.dir0 = {<<LetterA, Dot, LetterA>>}
    /\ fnOut.created = << <<LetterA, 32, 40, 49, 41, Dot, LetterA>>,
                          <<LetterA, 32, 40, 50, 41, Dot, LetterA>> >>
    /\ fnOut.r.err = "too many name collisions"

\* The request of c carries the configured credentials: an Authorization
\* header of scheme Basic that decodes to user, a colon, password.
HasCredentials(c) ==
    /\ authz[c].scheme = "Basic"
    /\ authz[c].decodes
    /\ authz[c].text = auth.User \o <<":">> \o auth.Password

\* C23: with basic auth enabled, a request without the configured
\* credentials is answered 401 with a WWW-Authenticate challenge whatever
\* its route; it is not upgraded and not registered, it is no owner, and the
\* step that answers it changes neither the registry nor the owner flag.
C23_NoHandlerWithoutCredentials ==
    /\ [](\A c \in Requests :
            (auth.Enabled /\ ~HasCredentials(c) /\ cpc[c] # "none") =>
                /\ cpc[c] = StatusUnauthorized
                /\ challenge[c]
                /\ c \notin clients
                /\ ~connOpen[c]
                /\ ~isOwner[c])
    /\ [][\A c \in Requests :
            (auth.Enabled /\ ~HasCredentials(c) /\ cpc'[c] # cpc[c]) =>
                /\ clients' = clients
                /\ connOpen' = connOpen
                /\ ownerConnected' = ownerConnected
                /\ isOwner' = isOwner]_vars

\* C23 witness: a request with the user and a wrong password was answered
\* 401 with the challenge, and a later one with the credentials is
\* registered.
C23_Witness ==
    /\ auth.Enabled
    /\ BasicAuth(authz[1]).ok
    /\ BasicAuth(authz[1]).user = auth.User
    /\ ~HasCredentials(1)
    /\ cpc[1] = StatusUnauthorized
    /\ challenge[1]
    /\ HasCredentials(2)
    /\ 2 \in clients

\* C24: a /ws-owner request whose token parameter is missing or is not
\* the configured owner token is answered 401, is not registered and is no
\* owner, and the step that answers it changes neither the owner flag nor
\* the registry nor the shutdown state.
C24_BadTokenIsRefused ==
    /\ [](\A c \in Requests :
            (cpc[c] # "none" /\ token[c] # ownerToken) =>
                /\ cpc[c] = StatusUnauthorized
                /\ c \notin clients
                /\ ~isOwner[c])
    /\ [][\A c \in Requests :
            (cpc[c] = "none" /\ cpc'[c] # "none" /\ token'[c] # ownerToken) =>
                /\ ownerConnected' = ownerConnected
                /\ clients' = clients
                /\ shutdownOnce' = shutdownOnce
                /\ httpShutdowns' = httpShutdowns]_vars

\* C25: after the owner's disconnect, after the cancellation of the
\* context given to Start and after the end of the session, the session is
\* closed and the listeners are stopped.
C25_EveryTriggerShutsDown ==
    /\ OwnerGone ~> (closed /\ ~listening)
    /\ ctxDone ~> (closed /\ ~listening)
    /\ chClosed ~> (closed /\ ~listening)

\* C26: an upload answered with an error status leaves the target
\* directory as it was before the request.
C26_FailedUploadLeavesNoFile ==
    (fnOut.done /\ fnOut.r.status # StatusOK) => fnOut.r.dir = fnIn.dir

\* C27: when the handler comes to send the snapshot on the queue of the
\* client it has registered, the queue has room.
C27_SnapshotSendHasRoom ==
    \A c \in Requests :
        (cpc[c] = "sendSnapshot" /\ Len(snap[c]) > 0) => Len(send[c]) < SendCap


\* A step of the run loop that attempts to start a shell: startShell is
\* called and returns a shell or an error.
StartAttempt == rl = "start" /\ rl' \in {"setPTY", "sleep"}

\* C28: (1) a failed start in a session that is not closed puts "Shell start
\* failed" on the status channel (when it has room) and (2) after the delay
\* the run loop is back at a start attempt unless the session was closed;
\* (3) once the session is closed no start is attempted any more and (4) the
\* run loop closes the channels and ends.
C28_FailedStartRetriesUntilClose ==
    /\ [][(StartAttempt /\ rl' = "sleep" /\ ~closed
              /\ Len(statusCh) < StatusCap)
            => statusCh' = Append(statusCh, "Shell start failed")]_vars
    /\ (rl = "sleep" /\ ~closed) ~> (rl = "start" \/ closed)
    /\ [][closed => ~StartAttempt]_vars
    /\ closed ~> (rl = "done" /\ chClosed)


\* The chunk readLoop holds is the end of the ring buffer (all of it that
\* fits).
Appended(chunk) ==
    LET k == IF Len(chunk) < BufferSize THEN Len(chunk) ELSE BufferSize
    IN  /\ Len(buffer) >= k
        /\ SubSeq(buffer, Len(buffer) - k + 1, Len(buffer))
             = SubSeq(chunk, Len(chunk) - k + 1, Len(chunk))

\* readLoop's call of emitOutput.
EmitCall == rl = "emit" /\ rl' # rl

\* C29: (1) emitOutput can always be taken, whatever outputCh holds; (2) the
\* chunk it is given is already in the ring buffer; (3) with outputCh full
\* the call leaves the channel as it is (the new chunk is the one lost) and
\* otherwise, the session not being closed, the chunk is queued last; (4)
\* in every case readLoop goes on to its next Read.
C29_FullOutputChannelDropsNewest ==
    /\ [](rl = "emit" => (ENABLED RLEmit /\ Appended(rlChunk)))
    /\ [][(EmitCall /\ Len(outputCh) >= OutputCap)
            => outputCh' = outputCh]_vars
    /\ [][(EmitCall /\ Len(outputCh) < OutputCap /\ ~closed)
            => outputCh' = Append(outputCh, rlChunk)]_vars
    /\ [][EmitCall => (rl' = "read" /\ buffer' = buffer)]_vars

\* The bytes of the output frames queued for or written to client c.
LiveBytes(c) ==
    UNION {Range(m.data) : m \in {x \in Range(send[c]) \cup Range(written[c]) :
                                     x.kind = "output"}}

\* C29 witness: the second chunk was emitted while the first still filled
\* outputCh, and a client that connected afterwards was sent a snapshot
\* with a byte that no client has or will be sent as output; readLoop is
\* back at Read.
C29_Witness ==
    /\ rl = "read"
    /\ nread >= 2
    /\ Len(outputCh) = OutputCap
    /\ 1 \in Range(Head(outputCh))
    /\ \E c \in Clients :
         \E m \in Range(send[c]) \cup Range(written[c]) :
            /\ m.kind = "snapshot"
            /\ \E b \in Range(m.data) :
                  /\ \A d \in Clients : b \notin LiveBytes(d)
                  /\ \A i \in 1..Len(outputCh) : b \notin Range(outputCh[i])


\* The step that executes close(c.send).
ClosesQueue(c) == cpc[c] = "close" /\ cpc'[c] # "close"

\* C30: (1) the queue of a registered client is not closed; (2) a queue
\* becomes closed only by its reader's close(c.send), which runs with the
\* client already out of the registry and (3) on a queue that is still
\* open, so it is closed once; (4) a closed queue stays closed and its
\* client stays out of the registry; (5) no step sends on a closed queue and
\* (6) the queue of a client that is not registered receives nothing.
C30_QueueClosedOnceAfterRemoval ==
    /\ [](\A c \in clients : ~sendClosed[c])
    /\ [][\A c \in Requests :
            (~sendClosed[c] /\ sendClosed'[c])
                => (ClosesQueue(c) /\ c \notin clients)]_vars
    /\ [][\A c \in Requests : ClosesQueue(c) => ~sendClosed[c]]_vars
    /\ [][\A c \in Requests :
            sendClosed[c] => (sendClosed'[c] /\ c \notin clients')]_vars
    /\ [][\A c \in Requests :
            Len(send'[c]) > Len(send[c]) => ~sendClosed[c]]_vars
    /\ [][\A c \in Requests :
            c \notin clients => Len(send'[c]) <= Len(send[c])]_vars

\* C30 witness: a client has left, its queue closed and empty, and a client
\* still registered holds a status that the first one was not sent.
C30_Witness ==
    \E c, d \in Requests :
        /\ sendClosed[c]
        /\ c \notin clients
        /\ send[c] = <<>>
        /\ d \in clients
        /\ send[d] # <<>>


\* C31: a PTY that is current and open has the size recorded last, when one
\* was recorded (Resize is one step here, so no call is ever in progress).
C31_CurrentPtyHasLastSize ==
    (pty # NoShell /\ ptyOpen[pty] /\ lastCols > 0 /\ lastRows > 0)
        => winsize[pty] = <<lastCols, lastRows>>


\* A Resize call returns.
ResizeReturns == resized'.n # resized.n

\* C32: a Resize with a size that is not positive returns "invalid terminal
\* size" and changes neither the recorded size nor any PTY's; a Resize with
\* a positive size records it; with no PTY current it then touches no
\* device and returns nil, and with a current PTY that is open it gives
\* that PTY, and no other, the size and returns nil.
C32_ResizeRecordsAndApplies ==
    [][ResizeReturns =>
         LET cols == resized'.cols
             rows == resized'.rows
         IN  IF cols <= 0 \/ rows <= 0
             THEN /\ resized'.err = "invalid terminal size"
                  /\ UNCHANGED <<lastCols, lastRows, winsize>>
             ELSE /\ lastCols' = cols
                  /\ lastRows' = rows
                  /\ pty = NoShell
                       => (winsize' = winsize /\ resized'.err = "nil")
                  /\ (pty # NoShell /\ ptyOpen[pty])
                       => /\ winsize' = [winsize EXCEPT ![pty] = <<cols, rows>>]
                          /\ resized'.err = "nil"]_vars

\* C32 witness: a size was recorded before any shell was started, and a
\* later Resize with a size that is not positive was refused.
C32_Witness ==
    /\ resized.n = 2
    /\ resized.err = "invalid terminal size"
    /\ lastCols > 0
    /\ lastRows > 0
    /\ nshell = 0
    /\ pty = NoShell


\* The bytes of the frame that request c read last, as far as they reached
\* a PTY.
Delivered(c) ==
    {j \in 1..Len(inputs) :
        inputs[j].client = c /\ inputs[j].frame = nframes[c]}

\* C33: (1) a WriteInput call that found no PTY writes nothing and returns
\* "shell not ready", its caller reading on; (2) a frame for which "shell
\* not ready" was returned has no byte at any PTY; (3) a byte reaches a PTY
\* only within the WriteInput call of its own frame and with the PTY that
\* call found, so the bytes of a dropped frame are not kept for a later
\* shell.
C33_NoPtyInputIsDropped ==
    /\ [][\A c \in Requests :
            (cpc[c] = "write" /\ wShell[c] = NoShell)
                => /\ Delivered(c)' = Delivered(c)
                   /\ cpc'[c] # "write"
                        => (cpc'[c] = "read" /\ werr'[c] = "shell not ready")]_vars
    /\ [](\A c \in Requests :
            (cpc[c] = "read" /\ werr[c] = "shell not ready")
                => Delivered(c) = {})
    /\ [][Len(inputs') > Len(inputs)
            => LET e == inputs'[Len(inputs')]
               IN  /\ cpc[e.client] = "write"
                   /\ e.frame = nframes[e.client]
                   /\ wShell[e.client] # NoShell
                   /\ ptyOpen[wShell[e.client]]]_vars

\* C33 witness: the first frame was written to the first shell, the second
\* frame arrived between that shell's exit and the respawn and was dropped,
\* and the second shell is current with nothing more written.
C33_Witness ==
    \E c \in Clients :
        /\ cpc[c] = "read"
        /\ nframes[c] = 2
        /\ werr[c] = "shell not ready"
        /\ Len(inputs) = InputLen
        /\ pty = 2
        /\ ptyOpen[2]


\* C34: terminateProcessTree returns a nil error exactly when it returns no
\* survivors.
C34_NilErrorIffNoSurvivors ==
    fnOut.done => (fnOut.r.err = "nil" <=> fnOut.r.survivors = {})


\* Request c is answered by handleWSOwner and carries the owner token.
ValidOwnerRequest(c) ==
    /\ cpc[c] = "none"
    /\ cpc'[c] # "none"
    /\ TrimSpace(token'[c]) = ownerToken

\* The upgrade of owner request c succeeded, whether its connection has
\* ended since or not.
OwnerUpgraded(c) == isOwner[c] /\ cpc[c] \notin {"none", "upgrade", "failed"}

\* C35: (1) a failed upgrade of an owner request clears ownerConnected, and
\* (2) a request with the owner token that finds the flag clear is accepted
\* and sets it; (3) once an owner request was upgraded the flag is set and
\* stays set, its connection ended or not, and (4) every request with the
\* owner token that finds the flag set is answered 409.
C35_OwnerFlagClearedOnlyOnFailedUpgrade ==
    /\ [][\A c \in Requests :
            (cpc[c] = "upgrade" /\ cpc'[c] = "failed") => ~ownerConnected']_vars
    /\ [][\A c \in Requests :
            (ValidOwnerRequest(c) /\ ~ownerConnected)
                => (cpc'[c] = "upgrade" /\ ownerConnected')]_vars
    /\ []((\E c \in Requests : OwnerUpgraded(c)) => ownerConnected)
    /\ [][\A c \in Requests :
            (ValidOwnerRequest(c) /\ ownerConnected)
                => (cpc'[c] = StatusConflict /\ ownerConnected')]_vars

\* C35 witness: the upgrade of the first owner request failed, the second
\* was accepted and upgraded, its connection has ended and the flag is
\* still set.
C35_Witness ==
    \E c, d \in Requests :
        /\ isOwner[c] /\ cpc[c] = "failed"
        /\ isOwner[d] /\ cpc[d] \in {"shutdown", "gone"}
        /\ ownerConnected


\* The calls that returned a name.
Returned == {k \in Uploaders : fnOut.call[k].pc \in {"copy", "saved", "removed"}}

\* The file call k was given, as it is when the call returns.
FileOf(k) ==
    [name |-> fnOut.call[k].name, gen |-> fnOut.call[k].gen, by |-> k,
     linked |-> TRUE]

\* Call k returns a name in this step.
ReturnsName(k) == fnOut.call[k].pc = "open" /\ fnOut'.call[k].pc = "copy"

\* C36 as stated: two calls never return the same name.
C36_NeverTheSameName ==
    \A j, k \in Returned :
        j # k => fnOut.call[j].name # fnOut.call[k].name

\* C36, amended: (1) the name a call returns did not exist before the step
\* that returns it and names from then on a file that this call created;
\* (2) two calls never have the same file, (3) every write goes to the file
\* of the call that makes it, and (4) two calls have the same name only
\* when the file of one of them was removed after a failed copy.
C36_ReturnedFileIsExclusive ==
    /\ [][\A k \in Uploaders :
            ReturnsName(k)
                => /\ fnOut'.call[k].name \notin Linked(fnOut.files)
                   /\ FileOf(k)' \in fnOut'.files
                   /\ fnOut'.call[k].gen
                        > Cardinality(Created(fnOut.files, fnOut'.call[k].name))]_vars
    /\ [](\A j, k \in Returned :
            j # k => <<fnOut.call[j].name, fnOut.call[j].gen>>
                        # <<fnOut.call[k].name, fnOut.call[k].gen>>)
    /\ [](\A w \in fnOut.writes :
            /\ w.by \in Returned
            /\ w.name = fnOut.call[w.by].name
            /\ w.gen = fnOut.call[w.by].gen
            /\ \E f \in fnOut.files :
                  f.name = w.name /\ f.gen = w.gen /\ f.by = w.by)
    /\ [](\A j, k \in Returned :
            (j # k /\ fnOut.call[j].name = fnOut.call[k].name)
                => "removed" \in {fnOut.call[j].pc, fnOut.call[k].pc})

\* C36 witness: both calls were made at the same time for a name that
\* existed; both were given a name and wrote their file, and the names
\* differ.
C36_Witness ==
    /\ fnIn \in Linked({f \in fnOut.files : f.by = NoRequest})
    /\ Returned = Uploaders
    /\ \A k \in Uploaders : fnOut.call[k].pc = "saved"
    /\ fnOut.call[1].name # fnOut.call[2].name
    /\ Cardinality(fnOut.writes) = 2


\* ------------------------------------------------ the title parser, by byte
\* The byte a step feeds, whether the step emits a title, and whether the
\* byte ends a title: BEL in the title text, or the backslash after ESC.
FedByte == fnIn[fnOut.pos + 1]

Emits == Len(fnOut'.titles) > Len(fnOut.titles)

AtTerminator ==
    \/ fnOut.p.state = "Title" /\ FedByte = BEL
    \/ fnOut.p.state = "TitleEsc" /\ FedByte = Backslash

IsDigit(b) == b >= Digit0 /\ b <= Digit9

\* The number the digit bytes of a parameter write, 0 for none.
RECURSIVE ParamValue(_)
ParamValue(ds) ==
    IF ds = <<>> THEN 0
    ELSE ParamValue(SubSeq(ds, 1, Len(ds) - 1)) * 10 + (ds[Len(ds)] - Digit0)

\* The first n bytes of the input end with ESC ] digits ; text and a
\* terminator, the digits writing 0 or 2 and the text not empty.
EndsTitleSequence(n) ==
    \E i \in 1..n, j \in 1..n :
        /\ i + 2 <= j
        /\ fnIn[i] = ESC
        /\ fnIn[i + 1] = RBracket
        /\ \A k \in (i + 2)..(j - 1) : IsDigit(fnIn[k])
        /\ ParamValue(SubSeq(fnIn, i + 2, j - 1)) \in {0, 2}
        /\ fnIn[j] = Semicolon
        /\ j + 1 <= n - (IF fnIn[n] = BEL THEN 1 ELSE 2)

\* C37: a title is emitted only by a terminator that ends the non-empty
\* text of an OSC sequence whose parameter is the number 0 or 2, and after
\* every terminator the buffer is empty and the state is Text.
C37_TitleOnlyFromOSC0Or2 ==
    [][/\ Emits => AtTerminator /\ EndsTitleSequence(fnOut'.pos)
       /\ AtTerminator => fnOut'.p.buf = <<>> /\ fnOut'.p.state = "Text"]_vars


\* The first MaxSize elements of a sequence.
Truncated(text) ==
    SubSeq(text, 1, IF Len(text) < MaxSize THEN Len(text) ELSE MaxSize)

\* C38: after every byte the buffer holds at most MaxSize bytes; a full
\* buffer is left as it is by every byte but a terminator; and an emitted
\* title is the first MaxSize bytes of the input between a ';' and the
\* terminator, an ESC in the text and the byte after it included.
C38_BufferCapped ==
    [][/\ Len(fnOut'.p.buf) <= MaxSize
       /\ (Len(fnOut.p.buf) = MaxSize /\ ~AtTerminator) =>
              fnOut'.p.buf = fnOut.p.buf
       /\ Emits =>
              /\ fnOut'.titles = Append(fnOut.titles, fnOut.p.buf)
              /\ \E j \in 1..fnOut.pos :
                     /\ fnIn[j] = Semicolon
                     /\ fnOut.p.buf =
                            Truncated(SubSeq(fnIn, j + 1,
                                fnOut'.pos - (IF FedByte = BEL THEN 1 ELSE 2)))]_vars

\* C38 witness: a title of MaxSize bytes was emitted whose last byte is an
\* ESC of the text; the byte after that ESC and the rest were dropped.
C38_Witness ==
    /\ fnOut.pos = Len(fnIn)
    /\ Len(fnOut.titles) = 1
    /\ Len(fnOut.titles[1]) = MaxSize
    /\ fnOut.titles[1][MaxSize] = ESC
    /\ Len(fnIn) >= 4
    /\ SubSeq(fnIn, Len(fnIn) - 3, Len(fnIn)) = <<ESC, Digit2, Semicolon, BEL>>


\* The state of a fresh parser that was fed the first n bytes of the input.
StateAfter(n) == Feed(newOSCTitleParser, SubSeq(fnIn, 1, n)).p.state

\* The input ends with ESC ] 0 ; text BEL that begins after n bytes, the
\* text not empty, without ESC and BEL, and no longer than the buffer.
EndsWithOSC0(n, text) ==
    /\ text # <<>>
    /\ Len(text) <= MaxSize
    /\ \A k \in 1..Len(text) : text[k] \notin {ESC, BEL}
    /\ SubSeq(fnIn, n + 1, Len(fnIn)) = OscSeq(<<Digit0>>, text, <<BEL>>)

\* C39: once an input is fed that ends with a complete ESC ] 0 ; text BEL
\* which began in a state other than Title and TitleEsc, the last title
\* emitted is text, whatever preceded the sequence.
C39_SequenceYieldsTitleAfterAnything ==
    \A n \in 0..Len(fnIn) : \A text \in OscTexts :
        (/\ fnOut.pos = Len(fnIn)
         /\ EndsWithOSC0(n, text)
         /\ StateAfter(n) \notin {"Title", "TitleEsc"}) =>
            /\ fnOut.titles # <<>>
            /\ fnOut.titles[Len(fnOut.titles)] = text


\* C40: the cleanup that the serve goroutine of a run does when it ends
\* cancels no context and closes no session but that run's, and leaves the
\* running flag alone if the Server holds another run.
C40_CleanupTearsDownOnlyItsRun ==
    [][\A r \in Runs :
          (fnOut.serve[r] \in {"serving", "cleanup"}
           /\ fnOut'.serve[r] # fnOut.serve[r]) =>
              /\ fnOut'.cancelled \subseteq fnOut.cancelled \cup {r}
              /\ fnOut'.sessionClosed \subseteq fnOut.sessionClosed \cup {r}
              /\ fnOut.session \notin {NoRun, r} =>
                     fnOut'.running = fnOut.running]_vars

====
